---- MODULE Spec2Model ----
(***************************************************************************)
(* Model of @ghii/ghii-engine-zod (src/ghiiEngineZod.ts): the zodEngine    *)
(* constructor and the two operations of the engine it returns, validate   *)
(* and toJsonSchema.  The zod library is the environment of the adapter:   *)
(* z.safeParse and z.toJSONSchema are modelled by what they return for a   *)
(* catalogue of schemas and candidate values taken from the test suite     *)
(* (src/__test__) and from the library's issue contract                    *)
(* (path: PropertyKey[], code, message, input?).                           *)
(*                                                                         *)
(* JavaScript strings of the validation side (path segments, codes,        *)
(* messages) are TLA+ strings; a JSON text is a sequence of one-character  *)
(* strings so that it can be scanned and parsed.                           *)
(***************************************************************************)
EXTENDS Integers, Sequences, FiniteSets, TLC

VARIABLES
    engine,        \* per engine slot: the closure of zodEngine (_schema)
    factoryCalls,  \* per schema factory: how many times it has been invoked
    factoryArgs,   \* per schema factory: the arguments of its invocations
    builtFrom,     \* per engine slot: the argument its constructor call was given
    libCall,       \* the library call made by the last operation
    ret,           \* the completion of the last operation (return or throw)
    failed         \* per engine slot: a call on the engine has thrown (history)

vars == <<engine, builtFrom, factoryCalls, factoryArgs, libCall, ret, failed>>

(***************************************************************************)
(* Bounds                                                                  *)
(***************************************************************************)
MaxFactoryCalls == 2

EngineIds == {"e1", "e2"}

(***************************************************************************)
(* JavaScript values                                                       *)
(***************************************************************************)
Undefined == [t |-> "undefined", v |-> "undefined"]
Null == [t |-> "null", v |-> "null"]
Str(s) == [t |-> "string", v |-> s]
Num(n) == [t |-> "number", v |-> n]
Bool(b) == [t |-> "boolean", v |-> b]
Arr(items) == [t |-> "array", v |-> items]
\* an object: its own property keys, in insertion order, and their values
Obj(keys, vals) == [t |-> "object", v |-> [keys |-> keys, vals |-> vals]]

\* PropertyKey = string | number | symbol
SegS(s) == [k |-> "string", s |-> s, n |-> 0]
SegN(n) == [k |-> "number", s |-> "", n |-> n]
SegY(d) == [k |-> "symbol", s |-> d, n |-> 0]

\* the zod namespace object handed to a schema factory
ZodNamespace == [t |-> "object", v |-> "zod/v4"]

\* a zod schema object, and a schema factory function
Schema(id) == [t |-> "object", v |-> id]
Factory(id) == [t |-> "function", v |-> id]

TypeOf(x) == x.t

(***************************************************************************)
(* The zod library, validation side: issues and z.safeParse                *)
(***************************************************************************)
\* a finalized zod issue.  z.safeParse is called without a parse context,
\* so the library removes `input` from every issue: reading it gives
\* undefined.  `extra` stands for the code-specific properties of the issue
\* (expected, minimum, values, ...), which the adapter never reads.
Issue(code, message, path, extra) ==
    [code |-> Str(code), message |-> Str(message), path |-> path,
     input |-> Undefined, extra |-> extra]

ParseOk(data) == [kind |-> "ok", data |-> data]
ParseFail(issues) == [kind |-> "fail", issues |-> issues]
ParseRaise(error) == [kind |-> "raise", error |-> error]

\* every schema of the catalogue except asyncSchema is an object schema, and
\* rejects a non-object at the root, with an empty path
RootTypeIssue(expected, received) ==
    Issue("invalid_type",
          "Invalid input: expected " \o expected \o ", received " \o received,
          <<>>, expected)

\* ---- userSchema: name min(1), age min(0).max(150), email, isActive? ----
userKeys == <<SegS("name"), SegS("age"), SegS("email"), SegS("isActive")>>
userValid ==
    Obj(userKeys, <<Str("John Doe"), Num(30), Str("john@example.com"), Bool(TRUE)>>)
userValidNoOptional ==
    Obj(SubSeq(userKeys, 1, 3), <<Str("Jane Doe"), Num(25), Str("jane@example.com")>>)
userInvalid ==
    Obj(userKeys, <<Str(""), Num(-5), Str("invalid-email"), Str("not-boolean")>>)
userMissing == Obj(<<SegS("name")>>, <<Str("John Doe")>>)

userSchemaParse(v) ==
    CASE v = userValid -> ParseOk(v)
      [] v = userValidNoOptional -> ParseOk(v)
      [] v = userInvalid -> ParseFail(<<
            Issue("too_small", "Too small: expected string to have >=1 characters",
                  <<SegS("name")>>, "string"),
            Issue("too_small", "Too small: expected number to be >=0",
                  <<SegS("age")>>, "number"),
            Issue("invalid_format", "Invalid email address",
                  <<SegS("email")>>, "email"),
            Issue("invalid_type", "Invalid input: expected boolean, received string",
                  <<SegS("isActive")>>, "boolean")>>)
      [] v = userMissing -> ParseFail(<<
            Issue("invalid_type", "Invalid input: expected number, received undefined",
                  <<SegS("age")>>, "number"),
            Issue("invalid_type", "Invalid input: expected string, received undefined",
                  <<SegS("email")>>, "string")>>)
      [] OTHER -> ParseFail(<<RootTypeIssue("object", TypeOf(v))>>)

\* ---- directSchema: id int positive, title min(1).max(100), tags? ----
directKeys == <<SegS("id"), SegS("title"), SegS("tags")>>
directValid ==
    Obj(directKeys, <<Num(1), Str("Test Title"), Arr(<<Str("tag1"), Str("tag2")>>)>>)
directValidNoOptional ==
    Obj(SubSeq(directKeys, 1, 2), <<Num(2), Str("Another Title")>>)
directInvalid ==
    Obj(directKeys, <<Num(0), Str(""), Arr(<<Num(123), Str("tag2")>>)>>)

directSchemaParse(v) ==
    CASE v = directValid -> ParseOk(v)
      [] v = directValidNoOptional -> ParseOk(v)
      [] v = directInvalid -> ParseFail(<<
            Issue("too_small", "Too small: expected number to be >0",
                  <<SegS("id")>>, "number"),
            Issue("too_small", "Too small: expected string to have >=1 characters",
                  <<SegS("title")>>, "string"),
            Issue("invalid_type", "Invalid input: expected string, received number",
                  <<SegS("tags"), SegN(0)>>, "string")>>)
      [] OTHER -> ParseFail(<<RootTypeIssue("object", TypeOf(v))>>)

\* ---- simpleSchema: name string, age number ----
simpleInvalid ==
    Obj(<<SegS("name"), SegS("age")>>, <<Num(123), Str("not-a-number")>>)
simpleValid ==
    Obj(<<SegS("name"), SegS("age")>>, <<Str("test"), Num(42)>>)

simpleSchemaParse(v) ==
    CASE v = simpleValid -> ParseOk(v)
      [] v = simpleInvalid -> ParseFail(<<
            Issue("invalid_type", "Invalid input: expected string, received number",
                  <<SegS("name")>>, "string"),
            Issue("invalid_type", "Invalid input: expected number, received string",
                  <<SegS("age")>>, "number")>>)
      [] OTHER -> ParseFail(<<RootTypeIssue("object", TypeOf(v))>>)

\* ---- complexSchema: user.profile, user.settings[], metadata ----
complexValue(firstName, theme, notifications, secondSetting, createdAt, version) ==
    Obj(<<SegS("user"), SegS("metadata")>>, <<
        Obj(<<SegS("profile"), SegS("settings")>>, <<
            Obj(<<SegS("firstName"), SegS("lastName"), SegS("preferences")>>, <<
                firstName, Str("Doe"),
                Obj(<<SegS("theme"), SegS("notifications")>>,
                    <<theme, notifications>>)>>),
            Arr(<<Obj(<<SegS("key"), SegS("value")>>, <<Str("language"), Str("en")>>),
                  Obj(<<SegS("key"), SegS("value")>>, <<Str("timezone"), secondSetting>>)>>)>>),
        Obj(<<SegS("createdAt"), SegS("version")>>, <<createdAt, version>>)>>)

complexValid ==
    complexValue(Str("John"), Str("dark"), Bool(TRUE), Str("UTC"),
                 Str("2023-01-01T00:00:00.000Z"), Num(1))
complexInvalid ==
    complexValue(Str(""), Str("invalid-theme"), Str("not-boolean"), Null,
                 Str("invalid-date"), Num(0))
\* only the theme is outside its two literals
complexBadTheme ==
    complexValue(Str("John"), Str("blue"), Bool(TRUE), Str("UTC"),
                 Str("2023-01-01T00:00:00.000Z"), Num(1))

themePath == <<SegS("user"), SegS("profile"), SegS("preferences"), SegS("theme")>>
themeIssue ==
    Issue("invalid_value", "Invalid option: expected one of \"light\"|\"dark\"",
          themePath, "values")

complexSchemaParse(v) ==
    CASE v = complexValid -> ParseOk(v)
      [] v = complexBadTheme -> ParseFail(<<themeIssue>>)
      [] v = complexInvalid -> ParseFail(<<
            Issue("too_small", "Too small: expected string to have >=1 characters",
                  <<SegS("user"), SegS("profile"), SegS("firstName")>>, "string"),
            themeIssue,
            Issue("invalid_type", "Invalid input: expected boolean, received string",
                  <<SegS("user"), SegS("profile"), SegS("preferences"),
                    SegS("notifications")>>, "boolean"),
            Issue("invalid_union", "Invalid input",
                  <<SegS("user"), SegS("settings"), SegN(1), SegS("value")>>, "errors"),
            Issue("invalid_format", "Invalid ISO datetime",
                  <<SegS("metadata"), SegS("createdAt")>>, "datetime"),
            Issue("too_small", "Too small: expected number to be >0",
                  <<SegS("metadata"), SegS("version")>>, "number")>>)
      [] OTHER -> ParseFail(<<RootTypeIssue("object", TypeOf(v))>>)

\* ---- appSchema: name, version and debug, each with a default ----
appEmpty == Obj(<<>>, <<>>)
appDefaults ==
    Obj(<<SegS("name"), SegS("version"), SegS("debug")>>,
        <<Str("my-app"), Str("1.0.0"), Bool(FALSE)>>)
appBadDebug == Obj(<<SegS("debug")>>, <<Str("yes")>>)

appSchemaParse(v) ==
    CASE v = appEmpty -> ParseOk(appDefaults)
      [] v = appDefaults -> ParseOk(appDefaults)
      [] v = appBadDebug -> ParseFail(<<
            Issue("invalid_type", "Invalid input: expected boolean, received string",
                  <<SegS("debug")>>, "boolean")>>)
      [] OTHER -> ParseFail(<<RootTypeIssue("object", TypeOf(v))>>)

\* ---- serversSchema: servers array min(1), cache record of {ttl, maxSize} ----
server1 ==
    Obj(<<SegS("host"), SegS("port"), SegS("weight")>>, <<Str("h"), Num(80), Num(1)>>)
cacheEntry(ttl) == Obj(<<SegS("ttl"), SegS("maxSize")>>, <<Num(ttl), Num(1)>>)
serversValue(servers, cacheKeys, cacheVals) ==
    Obj(<<SegS("servers"), SegS("cache")>>, <<Arr(servers), Obj(cacheKeys, cacheVals)>>)

serversValid == serversValue(<<server1>>, <<SegS("main")>>, <<cacheEntry(60)>>)
\* no server, and a cache entry whose key contains a dot
serversDottedKey == serversValue(<<>>, <<SegS("a.b")>>, <<cacheEntry(0)>>)
\* a cache entry under a symbol key: own keys of a record include symbols
serversSymbolKey == serversValue(<<server1>>, <<SegY("k")>>, <<cacheEntry(60)>>)
\* no server, and a cache entry under a symbol key
serversNoneSymbolKey == serversValue(<<>>, <<SegY("k")>>, <<cacheEntry(60)>>)

serversSchemaParse(v) ==
    CASE v = serversValid -> ParseOk(v)
      [] v = serversDottedKey -> ParseFail(<<
            Issue("too_small", "At least one server must be configured",
                  <<SegS("servers")>>, "array"),
            Issue("too_small", "Too small: expected number to be >0",
                  <<SegS("cache"), SegS("a.b"), SegS("ttl")>>, "number")>>)
      [] v = serversSymbolKey -> ParseFail(<<
            Issue("invalid_key", "Invalid key in record",
                  <<SegS("cache"), SegY("k")>>, "record")>>)
      [] v = serversNoneSymbolKey -> ParseFail(<<
            Issue("too_small", "At least one server must be configured",
                  <<SegS("servers")>>, "array"),
            Issue("invalid_key", "Invalid key in record",
                  <<SegS("cache"), SegY("k")>>, "record")>>)
      [] OTHER -> ParseFail(<<RootTypeIssue("object", TypeOf(v))>>)

\* ---- asyncSchema: a string with an asynchronous refinement ----
\* the synchronous entry point raises as soon as a check returns a promise;
\* the refinement is skipped when the type check has already failed
asyncSchemaParse(v) ==
    IF TypeOf(v) = "string"
    THEN ParseRaise("$ZodAsyncError")
    ELSE ParseFail(<<RootTypeIssue("string", TypeOf(v))>>)

\* ---- auditSchema: id uuid, metadata record, tags, createdAt date ----
auditSchemaParse(v) ==
    ParseFail(<<RootTypeIssue("object", TypeOf(v))>>)

SchemaIds ==
    {"userSchema", "directSchema", "simpleSchema", "complexSchema",
     "appSchema", "serversSchema", "asyncSchema", "auditSchema"}

\* the candidate values tried against each schema
Candidates(id) ==
    {Undefined} \cup
    CASE id = "userSchema" -> {userValid, userValidNoOptional, userInvalid, userMissing}
      [] id = "directSchema" -> {directValid, directValidNoOptional, directInvalid}
      [] id = "simpleSchema" -> {simpleValid, simpleInvalid}
      [] id = "complexSchema" -> {complexValid, complexInvalid, complexBadTheme}
      [] id = "appSchema" -> {appEmpty, appDefaults, appBadDebug}
      [] id = "serversSchema" ->
            {serversValid, serversDottedKey, serversSymbolKey, serversNoneSymbolKey}
      [] id = "asyncSchema" -> {Str("x"), Num(1)}
      [] id = "auditSchema" -> {Null}
      [] OTHER -> {}

\* z.safeParse(schema, value): never raises on a mismatch, reports it; it
\* raises a TypeError when `schema` is no schema object at all
safeParse(schema, value) ==
    CASE TypeOf(schema) # "object" -> ParseRaise("TypeError")
      [] schema.v = "userSchema" -> userSchemaParse(value)
      [] schema.v = "directSchema" -> directSchemaParse(value)
      [] schema.v = "simpleSchema" -> simpleSchemaParse(value)
      [] schema.v = "complexSchema" -> complexSchemaParse(value)
      [] schema.v = "appSchema" -> appSchemaParse(value)
      [] schema.v = "serversSchema" -> serversSchemaParse(value)
      [] schema.v = "asyncSchema" -> asyncSchemaParse(value)
      [] schema.v = "auditSchema" -> auditSchemaParse(value)

(***************************************************************************)
(* JavaScript built-ins used by the adapter on the validation side         *)
(***************************************************************************)
Digit(d) ==
    CASE d = 0 -> "0" [] d = 1 -> "1" [] d = 2 -> "2" [] d = 3 -> "3"
      [] d = 4 -> "4" [] d = 5 -> "5" [] d = 6 -> "6" [] d = 7 -> "7"
      [] d = 8 -> "8" [] d = 9 -> "9"

\* Number::toString for an integer: decimal digits, "-" for a negative one
RECURSIVE NumberToString(_)
NumberToString(n) ==
    IF n < 0 THEN "-" \o NumberToString(0 - n)
    ELSE IF n < 10 THEN Digit(n)
    ELSE NumberToString(n \div 10) \o Digit(n % 10)

\* ToString of an array element inside Array.prototype.join
SegToString(seg) ==
    IF seg.k = "number" THEN NumberToString(seg.n) ELSE seg.s

RECURSIVE JoinFrom(_, _, _)
JoinFrom(path, sep, k) ==
    IF k > Len(path) THEN ""
    ELSE (IF k > 1 THEN sep ELSE "") \o SegToString(path[k])
         \o JoinFrom(path, sep, k + 1)

\* mutant: the separator is dropped, as in path.join()
join_defaultSeparator(path, sep) ==
    IF \E k \in 1..Len(path) : path[k].k = "symbol"
    THEN [kind |-> "throw", error |-> "TypeError"]
    ELSE [kind |-> "return", value |-> Str(JoinFrom(path, ",", 1))]

\* Array.prototype.join: ToString of a symbol element throws a TypeError
join(path, sep) ==
    IF \E k \in 1..Len(path) : path[k].k = "symbol"
    THEN [kind |-> "throw", error |-> "TypeError"]
    ELSE [kind |-> "return", value |-> Str(JoinFrom(path, sep, 1))]

(***************************************************************************)
(* JSON texts.  A text is a sequence of one-character strings; in a        *)
(* document (the value z.toJSONSchema returns) a string is its sequence of *)
(* characters too, and an object key is such a string.                     *)
(***************************************************************************)
\* a number of a document: hi * 10^8 + lo, with 0 <= lo < 10^8, since
\* Number.MAX_SAFE_INTEGER (2^53 - 1), which zod emits as the maximum of an
\* integer, does not fit the 32-bit integers of the model checker
DocNum(hi, lo) == [t |-> "number", v |-> <<hi, lo>>]

Spaces(n) == [i \in 1..n |-> " "]

RECURSIVE DigitChars(_)
DigitChars(n) ==
    IF n < 10 THEN <<Digit(n)>> ELSE Append(DigitChars(n \div 10), Digit(n % 10))

\* Number::toString of a document number
DocNumberChars(n) ==
    IF n[1] = 0 THEN DigitChars(n[2])
    ELSE LET low == DigitChars(n[2])
         IN DigitChars(n[1]) \o [i \in 1..(8 - Len(low)) |-> "0"] \o low

\* QuoteJSONString escapes the quote, the backslash and the control
\* characters; the documents hold no control character but the newline
EscapeChar(c) ==
    CASE c = "\"" -> <<"\\", "\"">>
      [] c = "\\" -> <<"\\", "\\">>
      [] c = "\n" -> <<"\\", "n">>
      [] OTHER -> <<c>>

RECURSIVE EscapeRange(_, _, _)
EscapeRange(s, lo, hi) ==
    IF lo > hi THEN <<>>
    ELSE IF lo = hi THEN EscapeChar(s[lo])
    ELSE LET mid == (lo + hi) \div 2
         IN EscapeRange(s, lo, mid) \o EscapeRange(s, mid + 1, hi)

QuoteJSONString(s) ==
    <<"\"">>
    \o (IF \A i \in 1..Len(s) : s[i] \notin {"\"", "\\", "\n"}
        THEN s ELSE EscapeRange(s, 1, Len(s)))
    \o <<"\"">>

RECURSIVE JoinTexts(_, _, _)
JoinTexts(parts, sep, k) ==
    IF k > Len(parts) THEN <<>>
    ELSE (IF k > 1 THEN sep ELSE <<>>) \o parts[k] \o JoinTexts(parts, sep, k + 1)

\* SerializeJSONObject / SerializeJSONArray: the members `parts` between the
\* brackets `open` and `close`, at the indentation `indent` of the parent
SerializeMembers(open, close, parts, gap, indent) ==
    IF Len(parts) = 0 THEN <<open, close>>
    ELSE IF gap = <<>>
    THEN <<open>> \o JoinTexts(parts, <<",">>, 1) \o <<close>>
    ELSE <<open, "\n">> \o indent \o gap
         \o JoinTexts(parts, <<",", "\n">> \o indent \o gap, 1)
         \o <<"\n">> \o indent \o <<close>>

\* SerializeJSONProperty.  A property whose value is undefined is left out
\* of an object and written null in an array.
RECURSIVE SerializeJSONProperty(_, _, _)
SerializeJSONProperty(value, gap, indent) ==
    CASE value.t = "string" -> QuoteJSONString(value.v)
      [] value.t = "number" -> DocNumberChars(value.v)
      [] value.t = "boolean" ->
            IF value.v THEN <<"t", "r", "u", "e">> ELSE <<"f", "a", "l", "s", "e">>
      [] value.t \in {"null", "undefined"} -> <<"n", "u", "l", "l">>
      [] value.t = "array" ->
            SerializeMembers("[", "]",
                [i \in 1..Len(value.v) |->
                    SerializeJSONProperty(value.v[i], gap, indent \o gap)],
                gap, indent)
      [] value.t = "object" ->
            LET defined == SelectSeq([i \in 1..Len(value.v.keys) |-> i],
                               LAMBDA i : value.v.vals[i].t # "undefined")
            IN SerializeMembers("{", "}",
                   [m \in 1..Len(defined) |->
                       QuoteJSONString(value.v.keys[defined[m]])
                       \o <<":">> \o (IF gap = <<>> THEN <<>> ELSE <<" ">>)
                       \o SerializeJSONProperty(value.v.vals[defined[m]],
                                                gap, indent \o gap)],
                   gap, indent)

\* JSON.stringify(value, null, space) for a numeric space: a gap of
\* min(10, space) spaces
JSONstringify(value, space) ==
    SerializeJSONProperty(value, Spaces(IF space > 10 THEN 10 ELSE space), <<>>)

(***************************************************************************)
(* The zod library, JSON Schema side: z.toJSONSchema                       *)
(***************************************************************************)
\* the strings of the documents, each as its sequence of characters
Text ==
    [
     schemaKey |-> <<"$", "s", "c", "h", "e", "m", "a">>,
     draft2020 |-> <<"h", "t", "t", "p", "s", ":", "/", "/", "j", "s", "o",
         "n", "-", "s", "c", "h", "e", "m", "a", ".", "o", "r", "g", "/",
         "d", "r", "a", "f", "t", "/", "2", "0", "2", "0", "-", "1", "2",
         "/", "s", "c", "h", "e", "m", "a">>,
     name |-> <<"n", "a", "m", "e">>,
     age |-> <<"a", "g", "e">>,
     email |-> <<"e", "m", "a", "i", "l">>,
     isActive |-> <<"i", "s", "A", "c", "t", "i", "v", "e">>,
     type |-> <<"t", "y", "p", "e">>,
     minLength |-> <<"m", "i", "n", "L", "e", "n", "g", "t", "h">>,
     string |-> <<"s", "t", "r", "i", "n", "g">>,
     minimum |-> <<"m", "i", "n", "i", "m", "u", "m">>,
     maximum |-> <<"m", "a", "x", "i", "m", "u", "m">>,
     number |-> <<"n", "u", "m", "b", "e", "r">>,
     format |-> <<"f", "o", "r", "m", "a", "t">>,
     pattern |-> <<"p", "a", "t", "t", "e", "r", "n">>,
     emailPattern |-> <<"^", "(", "?", "!", "\\", ".", ")", "(", "?", "!",
         ".", "*", "\\", ".", "\\", ".", ")", "(", "[", "A", "-", "Z", "a",
         "-", "z", "0", "-", "9", "_", "'", "+", "\\", "-", "\\", ".", "]",
         "*", ")", "[", "A", "-", "Z", "a", "-", "z", "0", "-", "9", "_",
         "+", "-", "]", "@", "(", "[", "A", "-", "Z", "a", "-", "z", "0",
         "-", "9", "]", "[", "A", "-", "Z", "a", "-", "z", "0", "-", "9",
         "\\", "-", "]", "*", "\\", ".", ")", "+", "[", "A", "-", "Z", "a",
         "-", "z", "]", "{", "2", ",", "}", "$">>,
     boolean |-> <<"b", "o", "o", "l", "e", "a", "n">>,
     properties |-> <<"p", "r", "o", "p", "e", "r", "t", "i", "e", "s">>,
     required |-> <<"r", "e", "q", "u", "i", "r", "e", "d">>,
     additionalProperties |-> <<"a", "d", "d", "i", "t", "i", "o", "n", "a",
         "l", "P", "r", "o", "p", "e", "r", "t", "i", "e", "s">>,
     object |-> <<"o", "b", "j", "e", "c", "t">>,
     id |-> <<"i", "d">>,
     title |-> <<"t", "i", "t", "l", "e">>,
     tags |-> <<"t", "a", "g", "s">>,
     exclusiveMinimum |-> <<"e", "x", "c", "l", "u", "s", "i", "v", "e",
         "M", "i", "n", "i", "m", "u", "m">>,
     integer |-> <<"i", "n", "t", "e", "g", "e", "r">>,
     maxLength |-> <<"m", "a", "x", "L", "e", "n", "g", "t", "h">>,
     items |-> <<"i", "t", "e", "m", "s">>,
     array |-> <<"a", "r", "r", "a", "y">>,
     user |-> <<"u", "s", "e", "r">>,
     metadata |-> <<"m", "e", "t", "a", "d", "a", "t", "a">>,
     profile |-> <<"p", "r", "o", "f", "i", "l", "e">>,
     settings |-> <<"s", "e", "t", "t", "i", "n", "g", "s">>,
     firstName |-> <<"f", "i", "r", "s", "t", "N", "a", "m", "e">>,
     lastName |-> <<"l", "a", "s", "t", "N", "a", "m", "e">>,
     preferences |-> <<"p", "r", "e", "f", "e", "r", "e", "n", "c", "e",
         "s">>,
     theme |-> <<"t", "h", "e", "m", "e">>,
     notifications |-> <<"n", "o", "t", "i", "f", "i", "c", "a", "t", "i",
         "o", "n", "s">>,
     enum |-> <<"e", "n", "u", "m">>,
     light |-> <<"l", "i", "g", "h", "t">>,
     dark |-> <<"d", "a", "r", "k">>,
     key |-> <<"k", "e", "y">>,
     value |-> <<"v", "a", "l", "u", "e">>,
     anyOf |-> <<"a", "n", "y", "O", "f">>,
     createdAt |-> <<"c", "r", "e", "a", "t", "e", "d", "A", "t">>,
     version |-> <<"v", "e", "r", "s", "i", "o", "n">>,
     dateTime |-> <<"d", "a", "t", "e", "-", "t", "i", "m", "e">>,
     datetimePattern |-> <<"^", "(", "?", ":", "(", "?", ":", "\\", "d",
         "\\", "d", "[", "2", "4", "6", "8", "]", "[", "0", "4", "8", "]",
         "|", "\\", "d", "\\", "d", "[", "1", "3", "5", "7", "9", "]", "[",
         "2", "6", "]", "|", "\\", "d", "\\", "d", "0", "[", "4", "8", "]",
         "|", "[", "0", "2", "4", "6", "8", "]", "[", "0", "4", "8", "]",
         "0", "0", "|", "[", "1", "3", "5", "7", "9", "]", "[", "2", "6",
         "]", "0", "0", ")", "-", "0", "2", "-", "2", "9", "|", "\\", "d",
         "{", "4", "}", "-", "(", "?", ":", "(", "?", ":", "0", "[", "1",
         "3", "5", "7", "8", "]", "|", "1", "[", "0", "2", "]", ")", "-",
         "(", "?", ":", "0", "[", "1", "-", "9", "]", "|", "[", "1", "2",
         "]", "\\", "d", "|", "3", "[", "0", "1", "]", ")", "|", "(", "?",
         ":", "0", "[", "4", "6", "9", "]", "|", "1", "1", ")", "-", "(",
         "?", ":", "0", "[", "1", "-", "9", "]", "|", "[", "1", "2", "]",
         "\\", "d", "|", "3", "0", ")", "|", "(", "?", ":", "0", "2", ")",
         "-", "(", "?", ":", "0", "[", "1", "-", "9", "]", "|", "1", "\\",
         "d", "|", "2", "[", "0", "-", "8", "]", ")", ")", ")", "T", "(",
         "?", ":", "(", "?", ":", "[", "0", "1", "]", "\\", "d", "|", "2",
         "[", "0", "-", "3", "]", ")", ":", "[", "0", "-", "5", "]", "\\",
         "d", "(", "?", ":", ":", "[", "0", "-", "5", "]", "\\", "d", "(",
         "?", ":", "\\", ".", "\\", "d", "+", ")", "?", ")", "?", "(", "?",
         ":", "Z", ")", ")", "$">>,
     debug |-> <<"d", "e", "b", "u", "g">>,
     default |-> <<"d", "e", "f", "a", "u", "l", "t">>,
     myApp |-> <<"m", "y", "-", "a", "p", "p">>,
     v100 |-> <<"1", ".", "0", ".", "0">>,
     servers |-> <<"s", "e", "r", "v", "e", "r", "s">>,
     cache |-> <<"c", "a", "c", "h", "e">>,
     minItems |-> <<"m", "i", "n", "I", "t", "e", "m", "s">>,
     host |-> <<"h", "o", "s", "t">>,
     port |-> <<"p", "o", "r", "t">>,
     weight |-> <<"w", "e", "i", "g", "h", "t">>,
     propertyNames |-> <<"p", "r", "o", "p", "e", "r", "t", "y", "N", "a",
         "m", "e", "s">>,
     ttl |-> <<"t", "t", "l">>,
     maxSize |-> <<"m", "a", "x", "S", "i", "z", "e">>
    ]

\* the JSON Schema of z.object: closed, every non-optional key required
ObjectDoc(keys, vals, required) ==
    Obj(<<Text.type, Text.properties, Text.required, Text.additionalProperties>>,
        <<Str(Text.object), Obj(keys, vals),
          Arr([i \in 1..Len(required) |-> Str(required[i])]), Bool(FALSE)>>)

\* the root document names the JSON Schema draft first
Draft2020(doc) ==
    Obj(<<Text.schemaKey>> \o doc.v.keys, <<Str(Text.draft2020)>> \o doc.v.vals)

userSchemaDoc ==
    Draft2020(ObjectDoc(<<Text.name, Text.age, Text.email, Text.isActive>>, <<
        Obj(<<Text.type, Text.minLength>>, <<Str(Text.string), DocNum(0, 1)>>),
        Obj(<<Text.type, Text.minimum, Text.maximum>>, <<
            Str(Text.number),
            DocNum(0, 0),
            DocNum(0, 150)>>),
        Obj(<<Text.type, Text.format, Text.pattern>>, <<
            Str(Text.string),
            Str(Text.email),
            Str(Text.emailPattern)>>),
        Obj(<<Text.type>>, <<Str(Text.boolean)>>)>>,
        <<Text.name, Text.age, Text.email>>))

directSchemaDoc ==
    Draft2020(ObjectDoc(<<Text.id, Text.title, Text.tags>>, <<
        Obj(<<Text.type, Text.exclusiveMinimum, Text.maximum>>, <<
            Str(Text.integer),
            DocNum(0, 0),
            DocNum(90071992, 54740991)>>),
        Obj(<<Text.type, Text.minLength, Text.maxLength>>, <<
            Str(Text.string),
            DocNum(0, 1),
            DocNum(0, 100)>>),
        Obj(<<Text.type, Text.items>>, <<
            Str(Text.array),
            Obj(<<Text.type>>, <<Str(Text.string)>>)>>)>>,
        <<Text.id, Text.title>>))

simpleSchemaDoc ==
    Draft2020(ObjectDoc(<<Text.name, Text.age>>, <<
        Obj(<<Text.type>>, <<Str(Text.string)>>),
        Obj(<<Text.type>>, <<Str(Text.number)>>)>>,
        <<Text.name, Text.age>>))

complexSchemaDoc ==
    Draft2020(ObjectDoc(<<Text.user, Text.metadata>>, <<
        ObjectDoc(<<Text.profile, Text.settings>>, <<
            ObjectDoc(<<Text.firstName, Text.lastName, Text.preferences>>, <<
                Obj(<<Text.type, Text.minLength>>, <<
                    Str(Text.string),
                    DocNum(0, 1)>>),
                Obj(<<Text.type>>, <<Str(Text.string)>>),
                ObjectDoc(<<Text.theme, Text.notifications>>, <<
                    Obj(<<Text.type, Text.enum>>, <<
                        Str(Text.string),
                        Arr(<<Str(Text.light), Str(Text.dark)>>)>>),
                    Obj(<<Text.type>>, <<Str(Text.boolean)>>)>>,
                    <<Text.theme, Text.notifications>>)>>,
                <<Text.firstName, Text.lastName>>),
            Obj(<<Text.type, Text.items>>, <<
                Str(Text.array),
                ObjectDoc(<<Text.key, Text.value>>, <<
                    Obj(<<Text.type>>, <<Str(Text.string)>>),
                    Obj(<<Text.anyOf>>, <<
                        Arr(<<Obj(<<Text.type>>, <<Str(Text.string)>>), Obj(<<Text.type>>, <<Str(Text.number)>>), Obj(<<Text.type>>, <<Str(Text.boolean)>>)>>)>>)>>,
                    <<Text.key, Text.value>>)>>)>>,
            <<Text.profile, Text.settings>>),
        ObjectDoc(<<Text.createdAt, Text.version>>, <<
            Obj(<<Text.type, Text.format, Text.pattern>>, <<
                Str(Text.string),
                Str(Text.dateTime),
                Str(Text.datetimePattern)>>),
            Obj(<<Text.type, Text.exclusiveMinimum, Text.maximum>>, <<
                Str(Text.integer),
                DocNum(0, 0),
                DocNum(90071992, 54740991)>>)>>,
            <<Text.createdAt, Text.version>>)>>,
        <<Text.user, Text.metadata>>))

appSchemaDoc ==
    Draft2020(ObjectDoc(<<Text.name, Text.version, Text.debug>>, <<
        Obj(<<Text.default, Text.type>>, <<
            Str(Text.myApp),
            Str(Text.string)>>),
        Obj(<<Text.default, Text.type>>, <<Str(Text.v100), Str(Text.string)>>),
        Obj(<<Text.default, Text.type>>, <<Bool(FALSE), Str(Text.boolean)>>)>>,
        <<Text.name, Text.version, Text.debug>>))

serversSchemaDoc ==
    Draft2020(ObjectDoc(<<Text.servers, Text.cache>>, <<
        Obj(<<Text.minItems, Text.type, Text.items>>, <<
            DocNum(0, 1),
            Str(Text.array),
            ObjectDoc(<<Text.host, Text.port, Text.weight>>, <<
                Obj(<<Text.type>>, <<Str(Text.string)>>),
                Obj(<<Text.type>>, <<Str(Text.number)>>),
                Obj(<<Text.type, Text.minimum, Text.maximum>>, <<
                    Str(Text.number),
                    DocNum(0, 0),
                    DocNum(0, 1)>>)>>,
                <<Text.host, Text.port, Text.weight>>)>>),
        Obj(<<Text.type, Text.propertyNames, Text.additionalProperties>>, <<
            Str(Text.object),
            Obj(<<Text.type>>, <<Str(Text.string)>>),
            ObjectDoc(<<Text.ttl, Text.maxSize>>, <<
                Obj(<<Text.type, Text.exclusiveMinimum>>, <<
                    Str(Text.number),
                    DocNum(0, 0)>>),
                Obj(<<Text.type, Text.exclusiveMinimum>>, <<
                    Str(Text.number),
                    DocNum(0, 0)>>)>>,
                <<Text.ttl, Text.maxSize>>)>>)>>,
        <<Text.servers, Text.cache>>))

asyncSchemaDoc ==
    Draft2020(Obj(<<Text.type>>, <<Str(Text.string)>>))

\* z.toJSONSchema(schema): the document, or the failure the converter raises
\* on a construct JSON Schema cannot represent (the date of auditSchema)
toJSONSchema(schema) ==
    CASE TypeOf(schema) # "object" -> [kind |-> "raise", error |-> "TypeError"]
      [] schema.v = "userSchema" -> [kind |-> "ok", doc |-> userSchemaDoc]
      [] schema.v = "directSchema" -> [kind |-> "ok", doc |-> directSchemaDoc]
      [] schema.v = "simpleSchema" -> [kind |-> "ok", doc |-> simpleSchemaDoc]
      [] schema.v = "complexSchema" -> [kind |-> "ok", doc |-> complexSchemaDoc]
      [] schema.v = "appSchema" -> [kind |-> "ok", doc |-> appSchemaDoc]
      [] schema.v = "serversSchema" -> [kind |-> "ok", doc |-> serversSchemaDoc]
      [] schema.v = "asyncSchema" -> [kind |-> "ok", doc |-> asyncSchemaDoc]
      [] schema.v = "auditSchema" ->
            [kind |-> "raise", error |-> "Date cannot be represented in JSON Schema"]

(***************************************************************************)
(* JSON.parse, by which a reader of the text recovers the document         *)
(***************************************************************************)
JsonWhitespace == {" ", "\n", "\t", "\r"}
JsonDigits == {"0", "1", "2", "3", "4", "5", "6", "7", "8", "9"}

\* the first position from i on that holds no whitespace (Len(s) + 1 if none)
SkipWhitespace(s, i) ==
    CHOOSE j \in i..(Len(s) + 1) :
        /\ j <= Len(s) => s[j] \notin JsonWhitespace
        /\ \A k \in i..(j - 1) : s[k] \in JsonWhitespace

\* the number of consecutive backslashes that end right before position p
RECURSIVE BackslashRun(_, _)
BackslashRun(s, p) ==
    IF p > 1 /\ s[p - 1] = "\\" THEN 1 + BackslashRun(s, p - 1) ELSE 0

\* the character at p of a string literal is escaped by a backslash
IsEscaped(s, p) == BackslashRun(s, p) % 2 = 1

\* the closing quote of the string literal whose opening quote is at i
ClosingQuote(s, i) ==
    CHOOSE j \in (i + 1)..Len(s) :
        /\ s[j] = "\"" /\ ~IsEscaped(s, j)
        /\ \A k \in (i + 1)..(j - 1) : s[k] = "\"" => IsEscaped(s, k)

UnescapeChar(s, p) ==
    IF IsEscaped(s, p)
    THEN (CASE s[p] = "n" -> <<"\n">> [] s[p] = "t" -> <<"\t">>
            [] s[p] = "r" -> <<"\r">> [] OTHER -> <<s[p]>>)
    ELSE IF s[p] = "\\" THEN <<>> ELSE <<s[p]>>

RECURSIVE UnescapeRange(_, _, _)
UnescapeRange(s, lo, hi) ==
    IF lo > hi THEN <<>>
    ELSE IF lo = hi THEN UnescapeChar(s, lo)
    ELSE LET mid == (lo + hi) \div 2
         IN UnescapeRange(s, lo, mid) \o UnescapeRange(s, mid + 1, hi)

\* the string literal that opens at i: its characters and the position
\* after its closing quote
ParseStringAt(s, i) ==
    LET j == ClosingQuote(s, i)
    IN [val |-> IF \A k \in (i + 1)..(j - 1) : s[k] # "\\"
                THEN SubSeq(s, i + 1, j - 1)
                ELSE UnescapeRange(s, i + 1, j - 1),
        next |-> j + 1]

DigitValue(c) == CHOOSE d \in 0..9 : Digit(d) = c

RECURSIVE DigitsValue(_, _, _)
DigitsValue(s, lo, hi) ==
    IF lo > hi THEN 0
    ELSE 10 * DigitsValue(s, lo, hi - 1) + DigitValue(s[hi])

\* the unsigned integer literal that opens at i
ParseNumberAt(s, i) ==
    LET j == CHOOSE j \in i..Len(s) :
                 /\ j = Len(s) \/ s[j + 1] \notin JsonDigits
                 /\ \A k \in i..j : s[k] \in JsonDigits
        split == IF j - i + 1 > 8 THEN j - 8 ELSE i - 1
    IN [val |-> DocNum(DigitsValue(s, i, split), DigitsValue(s, split + 1, j)),
        next |-> j + 1]

RECURSIVE ParseValueAt(_, _), ParseMembersAt(_, _), ParseElementsAt(_, _)

\* the value that opens at or after i, and the position after it
ParseValueAt(s, i) ==
    LET j == SkipWhitespace(s, i)
        c == s[j]
    IN CASE c = "\"" ->
              LET str == ParseStringAt(s, j)
              IN [val |-> Str(str.val), next |-> str.next]
         [] c = "{" ->
              LET k == SkipWhitespace(s, j + 1)
              IN IF s[k] = "}"
                 THEN [val |-> Obj(<<>>, <<>>), next |-> k + 1]
                 ELSE LET m == ParseMembersAt(s, k)
                      IN [val |-> Obj(m.keys, m.vals), next |-> m.next]
         [] c = "[" ->
              LET k == SkipWhitespace(s, j + 1)
              IN IF s[k] = "]"
                 THEN [val |-> Arr(<<>>), next |-> k + 1]
                 ELSE LET m == ParseElementsAt(s, k)
                      IN [val |-> Arr(m.vals), next |-> m.next]
         [] c = "t" -> [val |-> Bool(TRUE), next |-> j + 4]
         [] c = "f" -> [val |-> Bool(FALSE), next |-> j + 5]
         [] c = "n" -> [val |-> Null, next |-> j + 4]
         [] c \in JsonDigits -> ParseNumberAt(s, j)

\* the members of an object from the key that opens at i to the closing brace
ParseMembersAt(s, i) ==
    LET key == ParseStringAt(s, i)
        colon == SkipWhitespace(s, key.next)
        val == ParseValueAt(s, colon + 1)
        after == SkipWhitespace(s, val.next)
    IN IF s[after] = ","
       THEN LET rest == ParseMembersAt(s, SkipWhitespace(s, after + 1))
            IN [keys |-> <<key.val>> \o rest.keys,
                vals |-> <<val.val>> \o rest.vals, next |-> rest.next]
       ELSE [keys |-> <<key.val>>, vals |-> <<val.val>>, next |-> after + 1]

\* the elements of an array from the one that opens at i to the bracket
ParseElementsAt(s, i) ==
    LET val == ParseValueAt(s, i)
        after == SkipWhitespace(s, val.next)
    IN IF s[after] = ","
       THEN LET rest == ParseElementsAt(s, after + 1)
            IN [vals |-> <<val.val>> \o rest.vals, next |-> rest.next]
       ELSE [vals |-> <<val.val>>, next |-> after + 1]

JSONparse(text) == ParseValueAt(text, 1).val

\* the texts the test suite records for the complex schema
complexSchemaCompactSnapshot ==
    <<"{", "\"", "$", "s", "c", "h", "e", "m", "a", "\"", ":", "\"", "h",
      "t", "t", "p", "s", ":", "/", "/", "j", "s", "o", "n", "-", "s", "c",
      "h", "e", "m", "a", ".", "o", "r", "g", "/", "d", "r", "a", "f", "t",
      "/", "2", "0", "2", "0", "-", "1", "2", "/", "s", "c", "h", "e", "m",
      "a", "\"", ",", "\"", "t", "y", "p", "e", "\"", ":", "\"", "o", "b",
      "j", "e", "c", "t", "\"", ",", "\"", "p", "r", "o", "p", "e", "r", "t",
      "i", "e", "s", "\"", ":", "{", "\"", "u", "s", "e", "r", "\"", ":",
      "{", "\"", "t", "y", "p", "e", "\"", ":", "\"", "o", "b", "j", "e",
      "c", "t", "\"", ",", "\"", "p", "r", "o", "p", "e", "r", "t", "i", "e",
      "s", "\"", ":", "{", "\"", "p", "r", "o", "f", "i", "l", "e", "\"",
      ":", "{", "\"", "t", "y", "p", "e", "\"", ":", "\"", "o", "b", "j",
      "e", "c", "t", "\"", ",", "\"", "p", "r", "o", "p", "e", "r", "t", "i",
      "e", "s", "\"", ":", "{", "\"", "f", "i", "r", "s", "t", "N", "a", "m",
      "e", "\"", ":", "{", "\"", "t", "y", "p", "e", "\"", ":", "\"", "s",
      "t", "r", "i", "n", "g", "\"", ",", "\"", "m", "i", "n", "L", "e", "n",
      "g", "t", "h", "\"", ":", "1", "}", ",", "\"", "l", "a", "s", "t", "N",
      "a", "m", "e", "\"", ":", "{", "\"", "t", "y", "p", "e", "\"", ":",
      "\"", "s", "t", "r", "i", "n", "g", "\"", "}", ",", "\"", "p", "r",
      "e", "f", "e", "r", "e", "n", "c", "e", "s", "\"", ":", "{", "\"", "t",
      "y", "p", "e", "\"", ":", "\"", "o", "b", "j", "e", "c", "t", "\"",
      ",", "\"", "p", "r", "o", "p", "e", "r", "t", "i", "e", "s", "\"", ":",
      "{", "\"", "t", "h", "e", "m", "e", "\"", ":", "{", "\"", "t", "y",
      "p", "e", "\"", ":", "\"", "s", "t", "r", "i", "n", "g", "\"", ",",
      "\"", "e", "n", "u", "m", "\"", ":", "[", "\"", "l", "i", "g", "h",
      "t", "\"", ",", "\"", "d", "a", "r", "k", "\"", "]", "}", ",", "\"",
      "n", "o", "t", "i", "f", "i", "c", "a", "t", "i", "o", "n", "s", "\"",
      ":", "{", "\"", "t", "y", "p", "e", "\"", ":", "\"", "b", "o", "o",
      "l", "e", "a", "n", "\"", "}", "}", ",", "\"", "r", "e", "q", "u", "i",
      "r", "e", "d", "\"", ":", "[", "\"", "t", "h", "e", "m", "e", "\"",
      ",", "\"", "n", "o", "t", "i", "f", "i", "c", "a", "t", "i", "o", "n",
      "s", "\"", "]", ",", "\"", "a", "d", "d", "i", "t", "i", "o", "n", "a",
      "l", "P", "r", "o", "p", "e", "r", "t", "i", "e", "s", "\"", ":", "f",
      "a", "l", "s", "e", "}", "}", ",", "\"", "r", "e", "q", "u", "i", "r",
      "e", "d", "\"", ":", "[", "\"", "f", "i", "r", "s", "t", "N", "a", "m",
      "e", "\"", ",", "\"", "l", "a", "s", "t", "N", "a", "m", "e", "\"",
      "]", ",", "\"", "a", "d", "d", "i", "t", "i", "o", "n", "a", "l", "P",
      "r", "o", "p", "e", "r", "t", "i", "e", "s", "\"", ":", "f", "a", "l",
      "s", "e", "}", ",", "\"", "s", "e", "t", "t", "i", "n", "g", "s", "\"",
      ":", "{", "\"", "t", "y", "p", "e", "\"", ":", "\"", "a", "r", "r",
      "a", "y", "\"", ",", "\"", "i", "t", "e", "m", "s", "\"", ":", "{",
      "\"", "t", "y", "p", "e", "\"", ":", "\"", "o", "b", "j", "e", "c",
      "t", "\"", ",", "\"", "p", "r", "o", "p", "e", "r", "t", "i", "e", "s",
      "\"", ":", "{", "\"", "k", "e", "y", "\"", ":", "{", "\"", "t", "y",
      "p", "e", "\"", ":", "\"", "s", "t", "r", "i", "n", "g", "\"", "}",
      ",", "\"", "v", "a", "l", "u", "e", "\"", ":", "{", "\"", "a", "n",
      "y", "O", "f", "\"", ":", "[", "{", "\"", "t", "y", "p", "e", "\"",
      ":", "\"", "s", "t", "r", "i", "n", "g", "\"", "}", ",", "{", "\"",
      "t", "y", "p", "e", "\"", ":", "\"", "n", "u", "m", "b", "e", "r",
      "\"", "}", ",", "{", "\"", "t", "y", "p", "e", "\"", ":", "\"", "b",
      "o", "o", "l", "e", "a", "n", "\"", "}", "]", "}", "}", ",", "\"", "r",
      "e", "q", "u", "i", "r", "e", "d", "\"", ":", "[", "\"", "k", "e", "y",
      "\"", ",", "\"", "v", "a", "l", "u", "e", "\"", "]", ",", "\"", "a",
      "d", "d", "i", "t", "i", "o", "n", "a", "l", "P", "r", "o", "p", "e",
      "r", "t", "i", "e", "s", "\"", ":", "f", "a", "l", "s", "e", "}", "}",
      "}", ",", "\"", "r", "e", "q", "u", "i", "r", "e", "d", "\"", ":", "[",
      "\"", "p", "r", "o", "f", "i", "l", "e", "\"", ",", "\"", "s", "e",
      "t", "t", "i", "n", "g", "s", "\"", "]", ",", "\"", "a", "d", "d", "i",
      "t", "i", "o", "n", "a", "l", "P", "r", "o", "p", "e", "r", "t", "i",
      "e", "s", "\"", ":", "f", "a", "l", "s", "e", "}", ",", "\"", "m", "e",
      "t", "a", "d", "a", "t", "a", "\"", ":", "{", "\"", "t", "y", "p", "e",
      "\"", ":", "\"", "o", "b", "j", "e", "c", "t", "\"", ",", "\"", "p",
      "r", "o", "p", "e", "r", "t", "i", "e", "s", "\"", ":", "{", "\"", "c",
      "r", "e", "a", "t", "e", "d", "A", "t", "\"", ":", "{", "\"", "t", "y",
      "p", "e", "\"", ":", "\"", "s", "t", "r", "i", "n", "g", "\"", ",",
      "\"", "f", "o", "r", "m", "a", "t", "\"", ":", "\"", "d", "a", "t",
      "e", "-", "t", "i", "m", "e", "\"", ",", "\"", "p", "a", "t", "t", "e",
      "r", "n", "\"", ":", "\"", "^", "(", "?", ":", "(", "?", ":", "\\",
      "\\", "d", "\\", "\\", "d", "[", "2", "4", "6", "8", "]", "[", "0",
      "4", "8", "]", "|", "\\", "\\", "d", "\\", "\\", "d", "[", "1", "3",
      "5", "7", "9", "]", "[", "2", "6", "]", "|", "\\", "\\", "d", "\\",
      "\\", "d", "0", "[", "4", "8", "]", "|", "[", "0", "2", "4", "6", "8",
      "]", "[", "0", "4", "8", "]", "0", "0", "|", "[", "1", "3", "5", "7",
      "9", "]", "[", "2", "6", "]", "0", "0", ")", "-", "0", "2", "-", "2",
      "9", "|", "\\", "\\", "d", "{", "4", "}", "-", "(", "?", ":", "(", "?",
      ":", "0", "[", "1", "3", "5", "7", "8", "]", "|", "1", "[", "0", "2",
      "]", ")", "-", "(", "?", ":", "0", "[", "1", "-", "9", "]", "|", "[",
      "1", "2", "]", "\\", "\\", "d", "|", "3", "[", "0", "1", "]", ")", "|",
      "(", "?", ":", "0", "[", "4", "6", "9", "]", "|", "1", "1", ")", "-",
      "(", "?", ":", "0", "[", "1", "-", "9", "]", "|", "[", "1", "2", "]",
      "\\", "\\", "d", "|", "3", "0", ")", "|", "(", "?", ":", "0", "2", ")",
      "-", "(", "?", ":", "0", "[", "1", "-", "9", "]", "|", "1", "\\", "\\",
      "d", "|", "2", "[", "0", "-", "8", "]", ")", ")", ")", "T", "(", "?",
      ":", "(", "?", ":", "[", "0", "1", "]", "\\", "\\", "d", "|", "2", "[",
      "0", "-", "3", "]", ")", ":", "[", "0", "-", "5", "]", "\\", "\\", "d",
      "(", "?", ":", ":", "[", "0", "-", "5", "]", "\\", "\\", "d", "(", "?",
      ":", "\\", "\\", ".", "\\", "\\", "d", "+", ")", "?", ")", "?", "(",
      "?", ":", "Z", ")", ")", "$", "\"", "}", ",", "\"", "v", "e", "r", "s",
      "i", "o", "n", "\"", ":", "{", "\"", "t", "y", "p", "e", "\"", ":",
      "\"", "i", "n", "t", "e", "g", "e", "r", "\"", ",", "\"", "e", "x",
      "c", "l", "u", "s", "i", "v", "e", "M", "i", "n", "i", "m", "u", "m",
      "\"", ":", "0", ",", "\"", "m", "a", "x", "i", "m", "u", "m", "\"",
      ":", "9", "0", "0", "7", "1", "9", "9", "2", "5", "4", "7", "4", "0",
      "9", "9", "1", "}", "}", ",", "\"", "r", "e", "q", "u", "i", "r", "e",
      "d", "\"", ":", "[", "\"", "c", "r", "e", "a", "t", "e", "d", "A", "t",
      "\"", ",", "\"", "v", "e", "r", "s", "i", "o", "n", "\"", "]", ",",
      "\"", "a", "d", "d", "i", "t", "i", "o", "n", "a", "l", "P", "r", "o",
      "p", "e", "r", "t", "i", "e", "s", "\"", ":", "f", "a", "l", "s", "e",
      "}", "}", ",", "\"", "r", "e", "q", "u", "i", "r", "e", "d", "\"", ":",
      "[", "\"", "u", "s", "e", "r", "\"", ",", "\"", "m", "e", "t", "a",
      "d", "a", "t", "a", "\"", "]", ",", "\"", "a", "d", "d", "i", "t", "i",
      "o", "n", "a", "l", "P", "r", "o", "p", "e", "r", "t", "i", "e", "s",
      "\"", ":", "f", "a", "l", "s", "e", "}">>

complexSchemaPrettySnapshot ==
    <<"{", "\n", " ", " ", "\"", "$", "s", "c", "h", "e", "m", "a", "\"",
      ":", " ", "\"", "h", "t", "t", "p", "s", ":", "/", "/", "j", "s", "o",
      "n", "-", "s", "c", "h", "e", "m", "a", ".", "o", "r", "g", "/", "d",
      "r", "a", "f", "t", "/", "2", "0", "2", "0", "-", "1", "2", "/", "s",
      "c", "h", "e", "m", "a", "\"", ",", "\n", " ", " ", "\"", "t", "y",
      "p", "e", "\"", ":", " ", "\"", "o", "b", "j", "e", "c", "t", "\"",
      ",", "\n", " ", " ", "\"", "p", "r", "o", "p", "e", "r", "t", "i", "e",
      "s", "\"", ":", " ", "{", "\n", " ", " ", " ", " ", "\"", "u", "s",
      "e", "r", "\"", ":", " ", "{", "\n", " ", " ", " ", " ", " ", " ",
      "\"", "t", "y", "p", "e", "\"", ":", " ", "\"", "o", "b", "j", "e",
      "c", "t", "\"", ",", "\n", " ", " ", " ", " ", " ", " ", "\"", "p",
      "r", "o", "p", "e", "r", "t", "i", "e", "s", "\"", ":", " ", "{", "\n",
      " ", " ", " ", " ", " ", " ", " ", " ", "\"", "p", "r", "o", "f", "i",
      "l", "e", "\"", ":", " ", "{", "\n", " ", " ", " ", " ", " ", " ", " ",
      " ", " ", " ", "\"", "t", "y", "p", "e", "\"", ":", " ", "\"", "o",
      "b", "j", "e", "c", "t", "\"", ",", "\n", " ", " ", " ", " ", " ", " ",
      " ", " ", " ", " ", "\"", "p", "r", "o", "p", "e", "r", "t", "i", "e",
      "s", "\"", ":", " ", "{", "\n", " ", " ", " ", " ", " ", " ", " ", " ",
      " ", " ", " ", " ", "\"", "f", "i", "r", "s", "t", "N", "a", "m", "e",
      "\"", ":", " ", "{", "\n", " ", " ", " ", " ", " ", " ", " ", " ", " ",
      " ", " ", " ", " ", " ", "\"", "t", "y", "p", "e", "\"", ":", " ",
      "\"", "s", "t", "r", "i", "n", "g", "\"", ",", "\n", " ", " ", " ",
      " ", " ", " ", " ", " ", " ", " ", " ", " ", " ", " ", "\"", "m", "i",
      "n", "L", "e", "n", "g", "t", "h", "\"", ":", " ", "1", "\n", " ", " ",
      " ", " ", " ", " ", " ", " ", " ", " ", " ", " ", "}", ",", "\n", " ",
      " ", " ", " ", " ", " ", " ", " ", " ", " ", " ", " ", "\"", "l", "a",
      "s", "t", "N", "a", "m", "e", "\"", ":", " ", "{", "\n", " ", " ", " ",
      " ", " ", " ", " ", " ", " ", " ", " ", " ", " ", " ", "\"", "t", "y",
      "p", "e", "\"", ":", " ", "\"", "s", "t", "r", "i", "n", "g", "\"",
      "\n", " ", " ", " ", " ", " ", " ", " ", " ", " ", " ", " ", " ", "}",
      ",", "\n", " ", " ", " ", " ", " ", " ", " ", " ", " ", " ", " ", " ",
      "\"", "p", "r", "e", "f", "e", "r", "e", "n", "c", "e", "s", "\"", ":",
      " ", "{", "\n", " ", " ", " ", " ", " ", " ", " ", " ", " ", " ", " ",
      " ", " ", " ", "\"", "t", "y", "p", "e", "\"", ":", " ", "\"", "o",
      "b", "j", "e", "c", "t", "\"", ",", "\n", " ", " ", " ", " ", " ", " ",
      " ", " ", " ", " ", " ", " ", " ", " ", "\"", "p", "r", "o", "p", "e",
      "r", "t", "i", "e", "s", "\"", ":", " ", "{", "\n", " ", " ", " ", " ",
      " ", " ", " ", " ", " ", " ", " ", " ", " ", " ", " ", " ", "\"", "t",
      "h", "e", "m", "e", "\"", ":", " ", "{", "\n", " ", " ", " ", " ", " ",
      " ", " ", " ", " ", " ", " ", " ", " ", " ", " ", " ", " ", " ", "\"",
      "t", "y", "p", "e", "\"", ":", " ", "\"", "s", "t", "r", "i", "n", "g",
      "\"", ",", "\n", " ", " ", " ", " ", " ", " ", " ", " ", " ", " ", " ",
      " ", " ", " ", " ", " ", " ", " ", "\"", "e", "n", "u", "m", "\"", ":",
      " ", "[", "\n", " ", " ", " ", " ", " ", " ", " ", " ", " ", " ", " ",
      " ", " ", " ", " ", " ", " ", " ", " ", " ", "\"", "l", "i", "g", "h",
      "t", "\"", ",", "\n", " ", " ", " ", " ", " ", " ", " ", " ", " ", " ",
      " ", " ", " ", " ", " ", " ", " ", " ", " ", " ", "\"", "d", "a", "r",
      "k", "\"", "\n", " ", " ", " ", " ", " ", " ", " ", " ", " ", " ", " ",
      " ", " ", " ", " ", " ", " ", " ", "]", "\n", " ", " ", " ", " ", " ",
      " ", " ", " ", " ", " ", " ", " ", " ", " ", " ", " ", "}", ",", "\n",
      " ", " ", " ", " ", " ", " ", " ", " ", " ", " ", " ", " ", " ", " ",
      " ", " ", "\"", "n", "o", "t", "i", "f", "i", "c", "a", "t", "i", "o",
      "n", "s", "\"", ":", " ", "{", "\n", " ", " ", " ", " ", " ", " ", " ",
      " ", " ", " ", " ", " ", " ", " ", " ", " ", " ", " ", "\"", "t", "y",
      "p", "e", "\"", ":", " ", "\"", "b", "o", "o", "l", "e", "a", "n",
      "\"", "\n", " ", " ", " ", " ", " ", " ", " ", " ", " ", " ", " ", " ",
      " ", " ", " ", " ", "}", "\n", " ", " ", " ", " ", " ", " ", " ", " ",
      " ", " ", " ", " ", " ", " ", "}", ",", "\n", " ", " ", " ", " ", " ",
      " ", " ", " ", " ", " ", " ", " ", " ", " ", "\"", "r", "e", "q", "u",
      "i", "r", "e", "d", "\"", ":", " ", "[", "\n", " ", " ", " ", " ", " ",
      " ", " ", " ", " ", " ", " ", " ", " ", " ", " ", " ", "\"", "t", "h",
      "e", "m", "e", "\"", ",", "\n", " ", " ", " ", " ", " ", " ", " ", " ",
      " ", " ", " ", " ", " ", " ", " ", " ", "\"", "n", "o", "t", "i", "f",
      "i", "c", "a", "t", "i", "o", "n", "s", "\"", "\n", " ", " ", " ", " ",
      " ", " ", " ", " ", " ", " ", " ", " ", " ", " ", "]", ",", "\n", " ",
      " ", " ", " ", " ", " ", " ", " ", " ", " ", " ", " ", " ", " ", "\"",
      "a", "d", "d", "i", "t", "i", "o", "n", "a", "l", "P", "r", "o", "p",
      "e", "r", "t", "i", "e", "s", "\"", ":", " ", "f", "a", "l", "s", "e",
      "\n", " ", " ", " ", " ", " ", " ", " ", " ", " ", " ", " ", " ", "}",
      "\n", " ", " ", " ", " ", " ", " ", " ", " ", " ", " ", "}", ",", "\n",
      " ", " ", " ", " ", " ", " ", " ", " ", " ", " ", "\"", "r", "e", "q",
      "u", "i", "r", "e", "d", "\"", ":", " ", "[", "\n", " ", " ", " ", " ",
      " ", " ", " ", " ", " ", " ", " ", " ", "\"", "f", "i", "r", "s", "t",
      "N", "a", "m", "e", "\"", ",", "\n", " ", " ", " ", " ", " ", " ", " ",
      " ", " ", " ", " ", " ", "\"", "l", "a", "s", "t", "N", "a", "m", "e",
      "\"", "\n", " ", " ", " ", " ", " ", " ", " ", " ", " ", " ", "]", ",",
      "\n", " ", " ", " ", " ", " ", " ", " ", " ", " ", " ", "\"", "a", "d",
      "d", "i", "t", "i", "o", "n", "a", "l", "P", "r", "o", "p", "e", "r",
      "t", "i", "e", "s", "\"", ":", " ", "f", "a", "l", "s", "e", "\n", " ",
      " ", " ", " ", " ", " ", " ", " ", "}", ",", "\n", " ", " ", " ", " ",
      " ", " ", " ", " ", "\"", "s", "e", "t", "t", "i", "n", "g", "s", "\"",
      ":", " ", "{", "\n", " ", " ", " ", " ", " ", " ", " ", " ", " ", " ",
      "\"", "t", "y", "p", "e", "\"", ":", " ", "\"", "a", "r", "r", "a",
      "y", "\"", ",", "\n", " ", " ", " ", " ", " ", " ", " ", " ", " ", " ",
      "\"", "i", "t", "e", "m", "s", "\"", ":", " ", "{", "\n", " ", " ",
      " ", " ", " ", " ", " ", " ", " ", " ", " ", " ", "\"", "t", "y", "p",
      "e", "\"", ":", " ", "\"", "o", "b", "j", "e", "c", "t", "\"", ",",
      "\n", " ", " ", " ", " ", " ", " ", " ", " ", " ", " ", " ", " ", "\"",
      "p", "r", "o", "p", "e", "r", "t", "i", "e", "s", "\"", ":", " ", "{",
      "\n", " ", " ", " ", " ", " ", " ", " ", " ", " ", " ", " ", " ", " ",
      " ", "\"", "k", "e", "y", "\"", ":", " ", "{", "\n", " ", " ", " ",
      " ", " ", " ", " ", " ", " ", " ", " ", " ", " ", " ", " ", " ", "\"",
      "t", "y", "p", "e", "\"", ":", " ", "\"", "s", "t", "r", "i", "n", "g",
      "\"", "\n", " ", " ", " ", " ", " ", " ", " ", " ", " ", " ", " ", " ",
      " ", " ", "}", ",", "\n", " ", " ", " ", " ", " ", " ", " ", " ", " ",
      " ", " ", " ", " ", " ", "\"", "v", "a", "l", "u", "e", "\"", ":", " ",
      "{", "\n", " ", " ", " ", " ", " ", " ", " ", " ", " ", " ", " ", " ",
      " ", " ", " ", " ", "\"", "a", "n", "y", "O", "f", "\"", ":", " ", "[",
      "\n", " ", " ", " ", " ", " ", " ", " ", " ", " ", " ", " ", " ", " ",
      " ", " ", " ", " ", " ", "{", "\n", " ", " ", " ", " ", " ", " ", " ",
      " ", " ", " ", " ", " ", " ", " ", " ", " ", " ", " ", " ", " ", "\"",
      "t", "y", "p", "e", "\"", ":", " ", "\"", "s", "t", "r", "i", "n", "g",
      "\"", "\n", " ", " ", " ", " ", " ", " ", " ", " ", " ", " ", " ", " ",
      " ", " ", " ", " ", " ", " ", "}", ",", "\n", " ", " ", " ", " ", " ",
      " ", " ", " ", " ", " ", " ", " ", " ", " ", " ", " ", " ", " ", "{",
      "\n", " ", " ", " ", " ", " ", " ", " ", " ", " ", " ", " ", " ", " ",
      " ", " ", " ", " ", " ", " ", " ", "\"", "t", "y", "p", "e", "\"", ":",
      " ", "\"", "n", "u", "m", "b", "e", "r", "\"", "\n", " ", " ", " ",
      " ", " ", " ", " ", " ", " ", " ", " ", " ", " ", " ", " ", " ", " ",
      " ", "}", ",", "\n", " ", " ", " ", " ", " ", " ", " ", " ", " ", " ",
      " ", " ", " ", " ", " ", " ", " ", " ", "{", "\n", " ", " ", " ", " ",
      " ", " ", " ", " ", " ", " ", " ", " ", " ", " ", " ", " ", " ", " ",
      " ", " ", "\"", "t", "y", "p", "e", "\"", ":", " ", "\"", "b", "o",
      "o", "l", "e", "a", "n", "\"", "\n", " ", " ", " ", " ", " ", " ", " ",
      " ", " ", " ", " ", " ", " ", " ", " ", " ", " ", " ", "}", "\n", " ",
      " ", " ", " ", " ", " ", " ", " ", " ", " ", " ", " ", " ", " ", " ",
      " ", "]", "\n", " ", " ", " ", " ", " ", " ", " ", " ", " ", " ", " ",
      " ", " ", " ", "}", "\n", " ", " ", " ", " ", " ", " ", " ", " ", " ",
      " ", " ", " ", "}", ",", "\n", " ", " ", " ", " ", " ", " ", " ", " ",
      " ", " ", " ", " ", "\"", "r", "e", "q", "u", "i", "r", "e", "d", "\"",
      ":", " ", "[", "\n", " ", " ", " ", " ", " ", " ", " ", " ", " ", " ",
      " ", " ", " ", " ", "\"", "k", "e", "y", "\"", ",", "\n", " ", " ",
      " ", " ", " ", " ", " ", " ", " ", " ", " ", " ", " ", " ", "\"", "v",
      "a", "l", "u", "e", "\"", "\n", " ", " ", " ", " ", " ", " ", " ", " ",
      " ", " ", " ", " ", "]", ",", "\n", " ", " ", " ", " ", " ", " ", " ",
      " ", " ", " ", " ", " ", "\"", "a", "d", "d", "i", "t", "i", "o", "n",
      "a", "l", "P", "r", "o", "p", "e", "r", "t", "i", "e", "s", "\"", ":",
      " ", "f", "a", "l", "s", "e", "\n", " ", " ", " ", " ", " ", " ", " ",
      " ", " ", " ", "}", "\n", " ", " ", " ", " ", " ", " ", " ", " ", "}",
      "\n", " ", " ", " ", " ", " ", " ", "}", ",", "\n", " ", " ", " ", " ",
      " ", " ", "\"", "r", "e", "q", "u", "i", "r", "e", "d", "\"", ":", " ",
      "[", "\n", " ", " ", " ", " ", " ", " ", " ", " ", "\"", "p", "r", "o",
      "f", "i", "l", "e", "\"", ",", "\n", " ", " ", " ", " ", " ", " ", " ",
      " ", "\"", "s", "e", "t", "t", "i", "n", "g", "s", "\"", "\n", " ",
      " ", " ", " ", " ", " ", "]", ",", "\n", " ", " ", " ", " ", " ", " ",
      "\"", "a", "d", "d", "i", "t", "i", "o", "n", "a", "l", "P", "r", "o",
      "p", "e", "r", "t", "i", "e", "s", "\"", ":", " ", "f", "a", "l", "s",
      "e", "\n", " ", " ", " ", " ", "}", ",", "\n", " ", " ", " ", " ",
      "\"", "m", "e", "t", "a", "d", "a", "t", "a", "\"", ":", " ", "{",
      "\n", " ", " ", " ", " ", " ", " ", "\"", "t", "y", "p", "e", "\"",
      ":", " ", "\"", "o", "b", "j", "e", "c", "t", "\"", ",", "\n", " ",
      " ", " ", " ", " ", " ", "\"", "p", "r", "o", "p", "e", "r", "t", "i",
      "e", "s", "\"", ":", " ", "{", "\n", " ", " ", " ", " ", " ", " ", " ",
      " ", "\"", "c", "r", "e", "a", "t", "e", "d", "A", "t", "\"", ":", " ",
      "{", "\n", " ", " ", " ", " ", " ", " ", " ", " ", " ", " ", "\"", "t",
      "y", "p", "e", "\"", ":", " ", "\"", "s", "t", "r", "i", "n", "g",
      "\"", ",", "\n", " ", " ", " ", " ", " ", " ", " ", " ", " ", " ",
      "\"", "f", "o", "r", "m", "a", "t", "\"", ":", " ", "\"", "d", "a",
      "t", "e", "-", "t", "i", "m", "e", "\"", ",", "\n", " ", " ", " ", " ",
      " ", " ", " ", " ", " ", " ", "\"", "p", "a", "t", "t", "e", "r", "n",
      "\"", ":", " ", "\"", "^", "(", "?", ":", "(", "?", ":", "\\", "\\",
      "d", "\\", "\\", "d", "[", "2", "4", "6", "8", "]", "[", "0", "4", "8",
      "]", "|", "\\", "\\", "d", "\\", "\\", "d", "[", "1", "3", "5", "7",
      "9", "]", "[", "2", "6", "]", "|", "\\", "\\", "d", "\\", "\\", "d",
      "0", "[", "4", "8", "]", "|", "[", "0", "2", "4", "6", "8", "]", "[",
      "0", "4", "8", "]", "0", "0", "|", "[", "1", "3", "5", "7", "9", "]",
      "[", "2", "6", "]", "0", "0", ")", "-", "0", "2", "-", "2", "9", "|",
      "\\", "\\", "d", "{", "4", "}", "-", "(", "?", ":", "(", "?", ":", "0",
      "[", "1", "3", "5", "7", "8", "]", "|", "1", "[", "0", "2", "]", ")",
      "-", "(", "?", ":", "0", "[", "1", "-", "9", "]", "|", "[", "1", "2",
      "]", "\\", "\\", "d", "|", "3", "[", "0", "1", "]", ")", "|", "(", "?",
      ":", "0", "[", "4", "6", "9", "]", "|", "1", "1", ")", "-", "(", "?",
      ":", "0", "[", "1", "-", "9", "]", "|", "[", "1", "2", "]", "\\", "\\",
      "d", "|", "3", "0", ")", "|", "(", "?", ":", "0", "2", ")", "-", "(",
      "?", ":", "0", "[", "1", "-", "9", "]", "|", "1", "\\", "\\", "d", "|",
      "2", "[", "0", "-", "8", "]", ")", ")", ")", "T", "(", "?", ":", "(",
      "?", ":", "[", "0", "1", "]", "\\", "\\", "d", "|", "2", "[", "0", "-",
      "3", "]", ")", ":", "[", "0", "-", "5", "]", "\\", "\\", "d", "(", "?",
      ":", ":", "[", "0", "-", "5", "]", "\\", "\\", "d", "(", "?", ":",
      "\\", "\\", ".", "\\", "\\", "d", "+", ")", "?", ")", "?", "(", "?",
      ":", "Z", ")", ")", "$", "\"", "\n", " ", " ", " ", " ", " ", " ", " ",
      " ", "}", ",", "\n", " ", " ", " ", " ", " ", " ", " ", " ", "\"", "v",
      "e", "r", "s", "i", "o", "n", "\"", ":", " ", "{", "\n", " ", " ", " ",
      " ", " ", " ", " ", " ", " ", " ", "\"", "t", "y", "p", "e", "\"", ":",
      " ", "\"", "i", "n", "t", "e", "g", "e", "r", "\"", ",", "\n", " ",
      " ", " ", " ", " ", " ", " ", " ", " ", " ", "\"", "e", "x", "c", "l",
      "u", "s", "i", "v", "e", "M", "i", "n", "i", "m", "u", "m", "\"", ":",
      " ", "0", ",", "\n", " ", " ", " ", " ", " ", " ", " ", " ", " ", " ",
      "\"", "m", "a", "x", "i", "m", "u", "m", "\"", ":", " ", "9", "0", "0",
      "7", "1", "9", "9", "2", "5", "4", "7", "4", "0", "9", "9", "1", "\n",
      " ", " ", " ", " ", " ", " ", " ", " ", "}", "\n", " ", " ", " ", " ",
      " ", " ", "}", ",", "\n", " ", " ", " ", " ", " ", " ", "\"", "r", "e",
      "q", "u", "i", "r", "e", "d", "\"", ":", " ", "[", "\n", " ", " ", " ",
      " ", " ", " ", " ", " ", "\"", "c", "r", "e", "a", "t", "e", "d", "A",
      "t", "\"", ",", "\n", " ", " ", " ", " ", " ", " ", " ", " ", "\"",
      "v", "e", "r", "s", "i", "o", "n", "\"", "\n", " ", " ", " ", " ", " ",
      " ", "]", ",", "\n", " ", " ", " ", " ", " ", " ", "\"", "a", "d", "d",
      "i", "t", "i", "o", "n", "a", "l", "P", "r", "o", "p", "e", "r", "t",
      "i", "e", "s", "\"", ":", " ", "f", "a", "l", "s", "e", "\n", " ", " ",
      " ", " ", "}", "\n", " ", " ", "}", ",", "\n", " ", " ", "\"", "r",
      "e", "q", "u", "i", "r", "e", "d", "\"", ":", " ", "[", "\n", " ", " ",
      " ", " ", "\"", "u", "s", "e", "r", "\"", ",", "\n", " ", " ", " ",
      " ", "\"", "m", "e", "t", "a", "d", "a", "t", "a", "\"", "\n", " ",
      " ", "]", ",", "\n", " ", " ", "\"", "a", "d", "d", "i", "t", "i", "o",
      "n", "a", "l", "P", "r", "o", "p", "e", "r", "t", "i", "e", "s", "\"",
      ":", " ", "f", "a", "l", "s", "e", "\n", "}">>

(***************************************************************************)
(* The adapter: zodEngine, validate, toJsonSchema                          *)
(***************************************************************************)
\* mutant: the outcome echoes the candidate value
successOutcome_echoesInput(toValidate, result) ==
    [success |-> TRUE, value |-> toValidate]

\* { success: true, value: result.data }
successOutcome(toValidate, result) ==
    [success |-> TRUE, value |-> result.data]

\* mutant: _raw is a copy of the issue whose path is the joined string
mapIssue_rawWithJoinedPath(issue) ==
    [path |-> join(issue.path, ".").value,
     input |-> issue.input,
     details |-> issue.code,
     message |-> issue.message,
     _raw |-> [issue EXCEPT !.path = <<SegS(join(issue.path, ".").value.v)>>]]

\* mutant: details takes the message instead of the code
mapIssue_detailsFromMessage(issue) ==
    [path |-> join(issue.path, ".").value,
     input |-> issue.input,
     details |-> issue.message,
     message |-> issue.message,
     _raw |-> issue]

\* the callback of result.error.issues.map
mapIssue(issue) ==
    [path |-> join(issue.path, ".").value,
     input |-> issue.input,
     details |-> issue.code,
     message |-> issue.message,
     _raw |-> issue]

\* mutant: only the first issue is reported
failureOutcome_firstIssueOnly(toValidate, result) ==
    [success |-> FALSE,
     errors |-> <<[path |-> join(result.issues[1].path, ".").value,
                   input |-> result.issues[1].input,
                   details |-> result.issues[1].code,
                   message |-> result.issues[1].message,
                   _raw |-> result.issues[1]]>>]

\* mutant: the failure outcome also carries a value
failureOutcome_withValue(toValidate, result) ==
    [success |-> FALSE,
     value |-> toValidate,
     errors |-> [i \in 1..Len(result.issues) |->
                    [path |-> join(result.issues[i].path, ".").value,
                     input |-> result.issues[i].input,
                     details |-> result.issues[i].code,
                     message |-> result.issues[i].message,
                     _raw |-> result.issues[i]]]]

\* { success: false, errors: result.error.issues.map(...) }
failureOutcome(toValidate, result) ==
    [success |-> FALSE,
     errors |-> [i \in 1..Len(result.issues) |-> mapIssue(result.issues[i])]]

\* mutant: a failure raised by the library is caught and reported as an
\* outcome without issues
validateBody_catchesRaise(_schema, toValidate) ==
    LET result == safeParse(_schema, toValidate)
    IN IF result.kind = "raise"
       THEN [kind |-> "return", value |-> [success |-> FALSE, errors |-> <<>>]]
       ELSE IF result.kind = "ok"
       THEN [kind |-> "return", value |-> successOutcome(toValidate, result)]
       ELSE IF \E i \in 1..Len(result.issues) :
                  join(result.issues[i].path, ".").kind = "throw"
       THEN [kind |-> "throw", error |-> "TypeError"]
       ELSE [kind |-> "return", value |-> failureOutcome(toValidate, result)]

\* the body of validate for the retained `_schema`: how the call completes
validateBody(_schema, toValidate) ==
    LET result == safeParse(_schema, toValidate)
    IN IF result.kind = "raise"
       THEN [kind |-> "throw", error |-> result.error]
       ELSE IF result.kind = "ok"
       THEN [kind |-> "return", value |-> successOutcome(toValidate, result)]
       ELSE IF \E i \in 1..Len(result.issues) :
                  join(result.issues[i].path, ".").kind = "throw"
       THEN [kind |-> "throw", error |-> "TypeError"]
       ELSE [kind |-> "return", value |-> failureOutcome(toValidate, result)]

\* the values a caller passes for `pretty`; undefined is the omitted argument
PrettyArgs == {Undefined, Bool(FALSE), Bool(TRUE)}

\* mutant: a failure of the converter is caught and an empty schema rendered
toJsonSchemaBody_fallsBack(_schema, prettyArg) ==
    LET pretty == IF prettyArg = Undefined THEN FALSE ELSE prettyArg.v
        converted == toJSONSchema(_schema)
    IN [kind |-> "return",
        value |-> JSONstringify(IF converted.kind = "raise" THEN Obj(<<>>, <<>>)
                                ELSE converted.doc,
                                IF pretty THEN 2 ELSE 0)]

\* mutant: the default of `pretty` is true
toJsonSchemaBody_prettyByDefault(_schema, prettyArg) ==
    LET pretty == IF prettyArg = Undefined THEN TRUE ELSE prettyArg.v
        converted == toJSONSchema(_schema)
    IN IF converted.kind = "raise"
       THEN [kind |-> "throw", error |-> converted.error]
       ELSE [kind |-> "return",
             value |-> JSONstringify(converted.doc, IF pretty THEN 2 ELSE 0)]

\* the body of toJsonSchema(pretty = false) for the retained `_schema`
toJsonSchemaBody(_schema, prettyArg) ==
    LET pretty == IF prettyArg = Undefined THEN FALSE ELSE prettyArg.v
        converted == toJSONSchema(_schema)
    IN IF converted.kind = "raise"
       THEN [kind |-> "throw", error |-> converted.error]
       ELSE [kind |-> "return",
             value |-> JSONstringify(converted.doc, IF pretty THEN 2 ELSE 0)]

\* ---- schema factories ----
FactoryIds == {"userSchema", "complexSchema", "throwingFactory"}

\* the body of a schema factory, called with the zod namespace
callFactory(id, zod) ==
    IF id = "throwingFactory"
    THEN [kind |-> "throw", error |-> "FactoryError"]
    ELSE [kind |-> "return", value |-> Schema(id)]

ConstructorArgs ==
    {Schema(id) : id \in SchemaIds} \cup {Factory(id) : id \in FactoryIds}

\* mutant: the factory is invoked a second time
zodEngineBody_invokesTwice(schema) ==
    IF TypeOf(schema) = "function"
    THEN LET r == callFactory(schema.v, ZodNamespace)
         IN [calls |-> <<ZodNamespace, ZodNamespace>>,
             done |-> IF r.kind = "throw"
                      THEN [kind |-> "throw", error |-> r.error]
                      ELSE [kind |-> "return", _schema |-> r.value]]
    ELSE [calls |-> <<>>, done |-> [kind |-> "return", _schema |-> schema]]

\* mutant: the callable argument is retained without being invoked
zodEngineBody_retainsFactory(schema) ==
    [calls |-> <<>>, done |-> [kind |-> "return", _schema |-> schema]]

\* mutant: a failure of the factory is caught and the argument retained
zodEngineBody_swallowsThrow(schema) ==
    IF TypeOf(schema) = "function"
    THEN LET r == callFactory(schema.v, ZodNamespace)
         IN [calls |-> <<ZodNamespace>>,
             done |-> IF r.kind = "throw"
                      THEN [kind |-> "return", _schema |-> schema]
                      ELSE [kind |-> "return", _schema |-> r.value]]
    ELSE [calls |-> <<>>, done |-> [kind |-> "return", _schema |-> schema]]

\* the body of zodEngine: the factory invocations it makes (the argument of
\* each) and how the call completes; on return, the `_schema` of the closure
zodEngineBody(schema) ==
    IF TypeOf(schema) = "function"
    THEN LET r == callFactory(schema.v, ZodNamespace)
         IN [calls |-> <<ZodNamespace>>,
             done |-> IF r.kind = "throw"
                      THEN [kind |-> "throw", error |-> r.error]
                      ELSE [kind |-> "return", _schema |-> r.value]]
    ELSE [calls |-> <<>>, done |-> [kind |-> "return", _schema |-> schema]]

NoEngine == [state |-> "none"]
NoCall == [op |-> "none"]

Init ==
    /\ engine = [e \in EngineIds |-> NoEngine]
    /\ builtFrom = [e \in EngineIds |-> NoCall]
    /\ factoryCalls = [f \in FactoryIds |-> 0]
    /\ factoryArgs = [f \in FactoryIds |-> <<>>]
    /\ libCall = NoCall
    /\ ret = NoCall
    /\ failed = [e \in EngineIds |-> FALSE]

\* const engine = zodEngine(schema), the result bound to slot e
zodEngine(e, schema) ==
    LET body == zodEngineBody(schema)
    IN /\ engine[e].state = "none"
       /\ TypeOf(schema) = "function" =>
             factoryCalls[schema.v] + Len(body.calls) <= MaxFactoryCalls
       /\ libCall' = NoCall
       /\ IF TypeOf(schema) = "function"
          THEN /\ factoryCalls' = [factoryCalls EXCEPT ![schema.v] = @ + Len(body.calls)]
               /\ factoryArgs' = [factoryArgs EXCEPT ![schema.v] = @ \o body.calls]
          ELSE UNCHANGED <<factoryCalls, factoryArgs>>
       /\ IF body.done.kind = "throw"
          THEN UNCHANGED <<engine, builtFrom>>
          ELSE /\ engine' = [engine EXCEPT ![e] =
                                [state |-> "built", _schema |-> body.done._schema]]
               /\ builtFrom' = [builtFrom EXCEPT ![e] = schema]
       /\ ret' = [op |-> "zodEngine", engine |-> e, arg |-> schema,
                  kind |-> body.done.kind,
                  error |-> IF body.done.kind = "throw" THEN body.done.error ELSE "none"]
       /\ UNCHANGED failed

\* mutant: the first completion is kept in a variable of the module, which
\* the closures of all engines share
validate_sharesMemo(e, toValidate) ==
    /\ engine[e].state = "built"
    /\ libCall' = [op |-> "safeParse", schema |-> engine[e]._schema,
                   value |-> toValidate,
                   result |-> safeParse(engine[e]._schema, toValidate)]
    /\ ret' = [op |-> "validate", engine |-> e, arg |-> toValidate]
                 @@ (IF "memo" \in DOMAIN engine[e] THEN engine[e].memo
                     ELSE validateBody(engine[e]._schema, toValidate))
    /\ engine' = [x \in EngineIds |->
                     IF engine[x].state = "built"
                     THEN [state |-> "built", _schema |-> engine[x]._schema,
                           memo |-> [f \in DOMAIN ret' \ {"op", "engine", "arg"} |->
                                        ret'[f]]]
                     ELSE engine[x]]
    /\ failed' = [failed EXCEPT ![e] = @ \/ ret'.kind = "throw"]
    /\ UNCHANGED <<builtFrom, factoryCalls, factoryArgs>>

\* mutant: the closure keeps the first completion and answers with it
validate_memoizes(e, toValidate) ==
    /\ engine[e].state = "built"
    /\ libCall' = [op |-> "safeParse", schema |-> engine[e]._schema,
                   value |-> toValidate,
                   result |-> safeParse(engine[e]._schema, toValidate)]
    /\ ret' = [op |-> "validate", engine |-> e, arg |-> toValidate]
                 @@ (IF "memo" \in DOMAIN engine[e] THEN engine[e].memo
                     ELSE validateBody(engine[e]._schema, toValidate))
    /\ engine' = [engine EXCEPT ![e] =
                     [state |-> "built", _schema |-> engine[e]._schema,
                      memo |-> [f \in DOMAIN ret' \ {"op", "engine", "arg"} |-> ret'[f]]]]
    /\ failed' = [failed EXCEPT ![e] = @ \/ ret'.kind = "throw"]
    /\ UNCHANGED <<builtFrom, factoryCalls, factoryArgs>>

\* engine.validate(toValidate)
validate(e, toValidate) ==
    /\ engine[e].state = "built"
    /\ libCall' = [op |-> "safeParse", schema |-> engine[e]._schema,
                   value |-> toValidate,
                   result |-> safeParse(engine[e]._schema, toValidate)]
    /\ ret' = [op |-> "validate", engine |-> e, arg |-> toValidate]
                 @@ validateBody(engine[e]._schema, toValidate)
    /\ failed' = [failed EXCEPT ![e] = @ \/ ret'.kind = "throw"]
    /\ UNCHANGED <<engine, builtFrom, factoryCalls, factoryArgs>>

\* mutant: a failed conversion leaves the closure without its schema
toJsonSchema_losesSchemaOnFailure(e, pretty) ==
    /\ engine[e].state = "built"
    /\ libCall' = [op |-> "toJSONSchema", schema |-> engine[e]._schema,
                   result |-> toJSONSchema(engine[e]._schema)]
    /\ ret' = [op |-> "toJsonSchema", engine |-> e, arg |-> pretty]
                 @@ toJsonSchemaBody(engine[e]._schema, pretty)
    /\ engine' = IF ret'.kind = "throw"
                 THEN [engine EXCEPT ![e]._schema = Undefined]
                 ELSE engine
    /\ failed' = [failed EXCEPT ![e] = @ \/ ret'.kind = "throw"]
    /\ UNCHANGED <<builtFrom, factoryCalls, factoryArgs>>

\* mutant: the converted document is assigned to the closure's variable
toJsonSchema_overwritesSchema(e, pretty) ==
    /\ engine[e].state = "built"
    /\ libCall' = [op |-> "toJSONSchema", schema |-> engine[e]._schema,
                   result |-> toJSONSchema(engine[e]._schema)]
    /\ ret' = [op |-> "toJsonSchema", engine |-> e, arg |-> pretty]
                 @@ toJsonSchemaBody(engine[e]._schema, pretty)
    /\ engine' = IF ret'.kind = "throw" THEN engine
                 ELSE [engine EXCEPT ![e]._schema =
                          [t |-> "object", v |-> "jsonSchemaDocument"]]
    /\ failed' = [failed EXCEPT ![e] = @ \/ ret'.kind = "throw"]
    /\ UNCHANGED <<builtFrom, factoryCalls, factoryArgs>>

\* mutant: the closure keeps the first text and returns it for every flag
toJsonSchema_cachesFirstText(e, pretty) ==
    /\ engine[e].state = "built"
    /\ libCall' = [op |-> "toJSONSchema", schema |-> engine[e]._schema,
                   result |-> toJSONSchema(engine[e]._schema)]
    /\ ret' = [op |-> "toJsonSchema", engine |-> e, arg |-> pretty]
                 @@ (IF "text" \in DOMAIN engine[e] THEN engine[e].text
                     ELSE toJsonSchemaBody(engine[e]._schema, pretty))
    /\ engine' = [engine EXCEPT ![e] =
                     [state |-> "built", _schema |-> engine[e]._schema,
                      text |-> [f \in DOMAIN ret' \ {"op", "engine", "arg"} |-> ret'[f]]]]
    /\ failed' = [failed EXCEPT ![e] = @ \/ ret'.kind = "throw"]
    /\ UNCHANGED <<builtFrom, factoryCalls, factoryArgs>>

\* engine.toJsonSchema(pretty)
toJsonSchema(e, pretty) ==
    /\ engine[e].state = "built"
    /\ libCall' = [op |-> "toJSONSchema", schema |-> engine[e]._schema,
                   result |-> toJSONSchema(engine[e]._schema)]
    /\ ret' = [op |-> "toJsonSchema", engine |-> e, arg |-> pretty]
                 @@ toJsonSchemaBody(engine[e]._schema, pretty)
    /\ failed' = [failed EXCEPT ![e] = @ \/ ret'.kind = "throw"]
    /\ UNCHANGED <<engine, builtFrom, factoryCalls, factoryArgs>>

Next ==
    \/ \E e \in EngineIds, schema \in ConstructorArgs : zodEngine(e, schema)
    \/ \E e \in EngineIds :
          /\ engine[e].state = "built"
          /\ \E toValidate \in Candidates(engine[e]._schema.v) : validate(e, toValidate)
    \/ \E e \in EngineIds, pretty \in PrettyArgs : toJsonSchema(e, pretty)

Spec == Init /\ [][Next]_vars

(***************************************************************************)
(* Properties of validate                                                  *)
(***************************************************************************)
\* the last operation was a validate call for which the library's
\* non-throwing parse returned its report
ValidateReported ==
    /\ ret.op = "validate"
    /\ libCall.result.kind \in {"ok", "fail"}

ValidateReturnedFailure ==
    /\ ValidateReported
    /\ ret.kind = "return"
    /\ libCall.result.kind = "fail"

\* C1: whatever the candidate value, a validate call on a constructed engine
\* does not throw once the library's non-throwing parse has reported: it
\* returns an outcome with a boolean success flag, and a schema mismatch is
\* a success=false outcome, never an exception.
C1_ValidateNeverThrows ==
    ValidateReported =>
        /\ ret.kind = "return"
        /\ ret.value.success \in BOOLEAN
        /\ (libCall.result.kind = "fail" => ret.value.success = FALSE)

\* C2: on a reported failure the errors sequence has the length of the
\* library's issue sequence and its i-th record comes from the i-th issue.
C2_ErrorsOneToOne ==
    ValidateReturnedFailure =>
        LET errors == ret.value.errors
            issues == libCall.result.issues
        IN /\ Len(errors) = Len(issues)
           /\ \A i \in 1..Len(issues) :
                 /\ errors[i]._raw = issues[i]
                 /\ errors[i].message = issues[i].message
                 /\ errors[i].details = issues[i].code

C2_Witness ==
    /\ ValidateReturnedFailure
    /\ Len(ret.value.errors) = 6
    /\ ret.value.errors[2].details # ret.value.errors[5].details

\* the dotted path of a segment sequence, built from its last segment back
RECURSIVE DottedPath(_)
DottedPath(segs) ==
    IF Len(segs) = 0 THEN ""
    ELSE LET last == segs[Len(segs)]
             text == IF last.k = "number" THEN ToString(last.n) ELSE last.s
         IN IF Len(segs) = 1 THEN text
            ELSE DottedPath(SubSeq(segs, 1, Len(segs) - 1)) \o "." \o text

\* C3: every Issue record's path is the '.'-joined concatenation of the
\* library issue's path segments, in order, numeric indices rendered as
\* string segments; it is the empty string for an empty library path.
C3_PathIsDottedJoin ==
    ValidateReturnedFailure =>
        \A i \in 1..Len(ret.value.errors) :
            LET segs == libCall.result.issues[i].path
            IN /\ ret.value.errors[i].path = Str(DottedPath(segs))
               /\ (segs = <<>> => ret.value.errors[i].path = Str(""))
               /\ (segs = <<SegS("user"), SegS("settings"), SegN(1), SegS("value")>>
                      => ret.value.errors[i].path = Str("user.settings.1.value"))

C3_Witness ==
    /\ ValidateReturnedFailure
    /\ ret.arg = complexInvalid
    /\ ret.value.errors[4].path = Str("user.settings.1.value")

\* C4: every Issue record has exactly the fields path, input, details,
\* message and _raw; input, details and message are the library issue's
\* input, code and message, _raw is the library issue itself, and path,
\* details and message are strings.
C4_IssueRecordShape ==
    ValidateReturnedFailure =>
        \A i \in 1..Len(ret.value.errors) :
            LET error == ret.value.errors[i]
                issue == libCall.result.issues[i]
            IN /\ DOMAIN error = {"path", "input", "details", "message", "_raw"}
               /\ error.input = issue.input
               /\ error.details = issue.code
               /\ error.message = issue.message
               /\ error._raw = issue
               /\ TypeOf(error.path) = "string"
               /\ TypeOf(error.details) = "string"
               /\ TypeOf(error.message) = "string"

C4_Witness ==
    /\ ValidateReturnedFailure
    /\ ret.arg = simpleInvalid
    /\ ret.value.errors[1].details = Str("invalid_type")
    /\ ret.value.errors[2].message =
          Str("Invalid input: expected number, received string")

\* C5: for a candidate value that satisfies the retained Schema, validate
\* returns a Success outcome whose value is the library's parse output,
\* defaults included.
C5_SuccessValueIsParseOutput ==
    (ret.op = "validate" /\ libCall.result.kind = "ok") =>
        /\ ret.kind = "return"
        /\ ret.value.success = TRUE
        /\ ret.value.value = libCall.result.data
        /\ libCall.schema = engine[ret.engine]._schema
        /\ libCall.value = ret.arg

C5_Witness ==
    /\ ret.op = "validate"
    /\ ret.arg = appEmpty
    /\ ret.kind = "return"
    /\ ret.value.value = appDefaults

\* C6: every outcome validate returns is one of the two variants: success
\* true with a value and no errors, exactly when the library reports
\* success; success false with errors and no value, exactly when it reports
\* failure.
C6_OutcomeIsTaggedUnion ==
    (ret.op = "validate" /\ ret.kind = "return") =>
        \/ /\ ret.value.success = TRUE
           /\ DOMAIN ret.value = {"success", "value"}
           /\ libCall.result.kind = "ok"
        \/ /\ ret.value.success = FALSE
           /\ DOMAIN ret.value = {"success", "errors"}
           /\ libCall.result.kind = "fail"

C6_Witness ==
    /\ ret.op = "validate" /\ ret.kind = "return"
    /\ ret.arg = userValidNoOptional
    /\ ret.value.success = TRUE

(***************************************************************************)
(* Properties of the constructor                                           *)
(***************************************************************************)
\* C7: a callable argument is invoked exactly once, with the zod namespace,
\* and its result is retained as the Schema; any other argument is retained
\* directly and nothing is invoked; no validate or toJsonSchema call invokes
\* a factory.
C7_FactoryInvokedOnce ==
    [][/\ (ret'.op = "zodEngine" /\ TypeOf(ret'.arg) = "function") =>
             /\ factoryCalls' = [factoryCalls EXCEPT ![ret'.arg.v] = @ + 1]
             /\ factoryArgs' =
                   [factoryArgs EXCEPT ![ret'.arg.v] = Append(@, ZodNamespace)]
             /\ ret'.kind = "return" =>
                   engine'[ret'.engine]._schema =
                      callFactory(ret'.arg.v, ZodNamespace).value
       /\ (ret'.op = "zodEngine" /\ TypeOf(ret'.arg) # "function") =>
             /\ UNCHANGED <<factoryCalls, factoryArgs>>
             /\ engine'[ret'.engine]._schema = ret'.arg
       /\ ret'.op \in {"validate", "toJsonSchema"} =>
             UNCHANGED <<factoryCalls, factoryArgs, engine>>
      ]_vars

C7_Witness ==
    /\ ret.op = "validate"
    /\ builtFrom[ret.engine] = Factory("userSchema")
    /\ factoryCalls["userSchema"] = 1
    /\ factoryArgs["userSchema"] = <<ZodNamespace>>

\* the completion of an operation, without the call it completes
Completion(r) == [f \in DOMAIN r \ {"op", "engine", "arg"} |-> r[f]]

\* C8: an engine built from a factory and an engine built directly from the
\* Schema that factory returns answer alike: what either has just returned
\* for a validate or toJsonSchema call is what the other returns for it.
C8_FactoryAndDirectAgree ==
    \A a, b \in EngineIds :
        (/\ ret.op \in {"validate", "toJsonSchema"}
         /\ ret.engine = a
         /\ builtFrom[a] # NoCall /\ builtFrom[b] # NoCall
         /\ \E id \in FactoryIds :
               {builtFrom[a], builtFrom[b]} = {Factory(id), Schema(id)})
        => Completion(ret) =
              IF ret.op = "validate"
              THEN validateBody(engine[b]._schema, ret.arg)
              ELSE toJsonSchemaBody(engine[b]._schema, ret.arg)

C8_Witness ==
    /\ builtFrom["e1"] = Factory("complexSchema")
    /\ builtFrom["e2"] = Schema("complexSchema")
    /\ ret.op = "validate" /\ ret.engine = "e1"
    /\ ret.arg = complexInvalid /\ ret.kind = "return"

\* C9: when the schema factory throws, the constructor call fails with that
\* very failure: no engine comes into being and the factory is not retried.
C9_FactoryThrowPropagates ==
    [][(/\ ret'.op = "zodEngine"
        /\ TypeOf(ret'.arg) = "function"
        /\ callFactory(ret'.arg.v, ZodNamespace).kind = "throw")
       => /\ ret'.kind = "throw"
          /\ ret'.error = callFactory(ret'.arg.v, ZodNamespace).error
          /\ UNCHANGED <<engine, builtFrom>>
          /\ factoryCalls'[ret'.arg.v] = factoryCalls[ret'.arg.v] + 1
      ]_vars

C9_Witness ==
    /\ ret.op = "zodEngine"
    /\ ret.arg = Factory("throwingFactory")
    /\ ret.kind = "throw" /\ ret.error = "FactoryError"
    /\ engine[ret.engine].state = "none"

(***************************************************************************)
(* Properties of toJsonSchema                                              *)
(***************************************************************************)
\* the positions of a text that satisfy Keep(position), in order
Positions(text, Keep(_)) == SelectSeq([i \in 1..Len(text) |-> i], Keep)

\* the quotes that open and close the string literals of a JSON text
LiteralQuotes(text) ==
    Positions(text, LAMBDA i : text[i] = "\"" /\ ~IsEscaped(text, i))

\* a JSON text without the whitespace that lies outside its string literals:
\* quotes[2j - 1] and quotes[2j] delimit the j-th literal
RECURSIVE StripBetween(_, _, _, _)
StripBetween(text, quotes, lo, hi) ==
    LET gap(j) ==
            LET from == IF j = 1 THEN 1 ELSE quotes[2 * j - 2] + 1
                to == IF 2 * j - 1 > Len(quotes) THEN Len(text)
                      ELSE quotes[2 * j - 1] - 1
            IN SelectSeq(SubSeq(text, from, to),
                         LAMBDA c : c \notin JsonWhitespace)
        literal(j) ==
            IF 2 * j - 1 > Len(quotes) THEN <<>>
            ELSE SubSeq(text, quotes[2 * j - 1], quotes[2 * j])
    IN IF lo = hi THEN gap(lo) \o literal(lo)
       ELSE LET mid == (lo + hi) \div 2
            IN StripBetween(text, quotes, lo, mid)
                  \o StripBetween(text, quotes, mid + 1, hi)

StripInsignificant(text) ==
    LET quotes == LiteralQuotes(text)
    IN StripBetween(text, quotes, 1, Len(quotes) \div 2 + 1)

\* the number of spaces from position `from` on
LeadingSpaces(text, from) ==
    CHOOSE n \in 0..(Len(text) + 1 - from) :
        /\ \A j \in 0..(n - 1) : text[from + j] = " "
        /\ from + n <= Len(text) => text[from + n] # " "

\* the sum of the numbers seq[lo..hi]
RECURSIVE SumRange(_, _, _)
SumRange(seq, lo, hi) ==
    IF lo > hi THEN 0
    ELSE IF lo = hi THEN seq[lo]
    ELSE LET mid == (lo + hi) \div 2
         IN SumRange(seq, lo, mid) + SumRange(seq, mid + 1, hi)

\* the text is laid out one member or element per line, each nesting level
\* indented by `step` spaces more than the level that holds it, a single
\* space after the colon of each key, and no other whitespace added
IndentedBy(text, step) ==
    LET feeds == Positions(text, LAMBDA i : text[i] = "\n")
        indents == [k \in 1..Len(feeds) |-> LeadingSpaces(text, feeds[k] + 1)]
        indent(k) == IF k = 0 THEN 0 ELSE indents[k]
        quotes == LiteralQuotes(text)
        keys == {j \in 1..Len(quotes) :
                    j % 2 = 0 /\ text[quotes[j] + 1] = ":"}
    IN /\ Len(feeds) > 0
       /\ \A k \in 1..Len(feeds) :
             LET last == text[feeds[k] - 1]
                 first == text[feeds[k] + 1 + indent(k)]
             IN IF first \in {"}", "]"}
                THEN last \notin {"{", "[", ","} /\ indent(k) = indent(k - 1) - step
                ELSE IF last \in {"{", "["}
                THEN indent(k) = indent(k - 1) + step
                ELSE last = "," /\ indent(k) = indent(k - 1)
       /\ \A j \in keys : text[quotes[j] + 2] = " "
       /\ Len(text) - Len(StripInsignificant(text)) =
             Len(feeds) + SumRange(indents, 1, Len(feeds)) + Cardinality(keys)

\* C10: for one engine toJsonSchema() and toJsonSchema(false) return the same
\* compact text, without whitespace added to it; toJsonSchema(true) returns
\* that text laid out with newlines and 2-space indentation; parsing either
\* form yields the same schema object.
C10_PrettyIsLayoutOnly ==
    (ret.op = "toJsonSchema" /\ ret.kind = "return") =>
        \A absent \in {toJsonSchemaBody(engine[ret.engine]._schema, Undefined)},
           compact \in {toJsonSchemaBody(engine[ret.engine]._schema, Bool(FALSE))},
           indented \in {toJsonSchemaBody(engine[ret.engine]._schema, Bool(TRUE))} :
            /\ absent = compact
            /\ compact.kind = "return" /\ indented.kind = "return"
            /\ ret.arg \in {Undefined, Bool(FALSE)} =>
                  /\ ret.value = compact.value
                  /\ StripInsignificant(ret.value) = ret.value
                  /\ JSONparse(ret.value) = JSONparse(indented.value)
            /\ ret.arg = Bool(TRUE) =>
                  /\ ret.value = indented.value
                  /\ ret.value # compact.value
                  /\ IndentedBy(ret.value, 2)
                  /\ StripInsignificant(ret.value) = compact.value
                  /\ JSONparse(ret.value) = JSONparse(compact.value)

C10_Witness ==
    /\ ret.op = "toJsonSchema" /\ ret.kind = "return"
    /\ ret.arg = Bool(TRUE)
    /\ ret.value = complexSchemaPrettySnapshot
    /\ toJsonSchemaBody(engine[ret.engine]._schema, Undefined).value =
          complexSchemaCompactSnapshot

(***************************************************************************)
(* Properties of an engine over its lifetime                               *)
(***************************************************************************)
\* C11: validate is idempotent.  No step, of whatever operation on whatever
\* engine, changes what a built engine answers to any candidate value; a
\* validate call returns that answer; and a validate call that repeats the
\* previous call completes as the previous call did.
C11_ValidateIsIdempotent ==
    [][/\ \A e \in EngineIds :
             (engine[e].state = "built" /\ engine'[e].state = "built") =>
                \A v \in Candidates(builtFrom[e].v) :
                    validateBody(engine'[e]._schema, v) =
                       validateBody(engine[e]._schema, v)
       /\ ret'.op = "validate" =>
             Completion(ret') = validateBody(engine[ret'.engine]._schema, ret'.arg)
       /\ (/\ ret.op = "validate" /\ ret'.op = "validate"
           /\ ret'.engine = ret.engine /\ ret'.arg = ret.arg) =>
             Completion(ret') = Completion(ret)
      ]_vars

\* a validate call answered after an earlier validate call on the same
\* engine had thrown
C11_Witness ==
    /\ ret.op = "validate" /\ ret.kind = "return"
    /\ engine[ret.engine]._schema = Schema("asyncSchema")
    /\ ret.arg = Num(1)
    /\ failed[ret.engine]

\* C12: what toJsonSchema gives is a function of the retained Schema and the
\* flag alone: it is what any engine holding the same Schema gives for that
\* flag, whatever calls either engine has served, and for the complex schema
\* of the test suite it is the recorded text in every reachable state.
C12_TextDependsOnSchemaAndFlag ==
    ret.op = "toJsonSchema" =>
        /\ \A b \in EngineIds :
              (/\ engine[b].state = "built"
               /\ engine[b]._schema = engine[ret.engine]._schema)
              => Completion(ret) = toJsonSchemaBody(engine[b]._schema, ret.arg)
        /\ engine[ret.engine]._schema = Schema("complexSchema") =>
              /\ ret.kind = "return"
              /\ ret.value = IF ret.arg = Bool(TRUE)
                             THEN complexSchemaPrettySnapshot
                             ELSE complexSchemaCompactSnapshot

\* two engines hold the same Schema, one of them has had a call throw, the
\* other has not, and the first returns its text
C12_Witness ==
    /\ ret.op = "toJsonSchema" /\ ret.kind = "return"
    /\ ret.engine = "e1" /\ ret.arg = Undefined
    /\ engine["e1"]._schema = Schema("serversSchema")
    /\ engine["e2"].state = "built"
    /\ engine["e2"]._schema = Schema("serversSchema")
    /\ failed["e1"] /\ ~failed["e2"]

\* the Schema a constructor call with argument `schema` retains
RetainedAtConstruction(schema) == zodEngineBody(schema).done._schema

\* C13: in every reachable state the closure of a built engine holds the
\* Schema chosen at construction (the argument, or the result of the
\* factory) and nothing else, whatever calls have returned or thrown since.
C13_SchemaFixedAtConstruction ==
    \A e \in EngineIds :
        IF engine[e].state = "built"
        THEN /\ DOMAIN engine[e] = {"state", "_schema"}
             /\ builtFrom[e] \in ConstructorArgs
             /\ engine[e]._schema = RetainedAtConstruction(builtFrom[e])
        ELSE engine[e] = NoEngine /\ builtFrom[e] = NoCall

\* a validate call has thrown on an engine that still holds its Schema
C13_Witness ==
    /\ ret.op = "validate" /\ ret.kind = "throw"
    /\ builtFrom[ret.engine] = Schema("serversSchema")
    /\ engine[ret.engine]._schema = Schema("serversSchema")
    /\ failed[ret.engine]

(***************************************************************************)
(* Failures of the library                                                 *)
(***************************************************************************)
\* C14: when z.toJSONSchema raises on the retained Schema, toJsonSchema
\* completes by throwing that very failure: it returns no text.
C14_ConversionFailurePropagates ==
    (ret.op = "toJsonSchema" /\ libCall.result.kind = "raise") =>
        /\ libCall.schema = engine[ret.engine]._schema
        /\ ret.kind = "throw"
        /\ ret.error = libCall.result.error
        /\ "value" \notin DOMAIN ret

C14_Witness ==
    /\ ret.op = "toJsonSchema" /\ ret.arg = Bool(TRUE)
    /\ engine[ret.engine]._schema = Schema("auditSchema")
    /\ ret.kind = "throw"
    /\ ret.error = "Date cannot be represented in JSON Schema"

\* C18: when z.safeParse itself raises, validate completes by throwing that
\* very failure: it returns no outcome, in particular no success=false one.
C18_LibraryRaisePropagates ==
    (ret.op = "validate" /\ libCall.result.kind = "raise") =>
        /\ libCall.schema = engine[ret.engine]._schema
        /\ libCall.value = ret.arg
        /\ ret.kind = "throw"
        /\ ret.error = libCall.result.error
        /\ "value" \notin DOMAIN ret

C18_Witness ==
    /\ ret.op = "validate" /\ ret.arg = Str("x")
    /\ engine[ret.engine]._schema = Schema("asyncSchema")
    /\ ret.kind = "throw" /\ ret.error = "$ZodAsyncError"

(***************************************************************************)
(* The constraints the schemas of the catalogue state, evaluated on a      *)
(* candidate value: the paths of the constraints it violates, in the order *)
(* of the schema.  A value of the wrong type violates the type constraint  *)
(* of its field and none of the checks that depend on it.                  *)
(***************************************************************************)
IsString(x) == TypeOf(x) = "string"
IsNumber(x) == TypeOf(x) = "number"
IsBoolean(x) == TypeOf(x) = "boolean"
IsArray(x) == TypeOf(x) = "array"
IsObject(x) == TypeOf(x) = "object"

\* the property `key` of a value (undefined when it has none)
Get(x, key) ==
    IF IsObject(x) /\ \E i \in 1..Len(x.v.keys) : x.v.keys[i] = SegS(key)
    THEN x.v.vals[CHOOSE i \in 1..Len(x.v.keys) : x.v.keys[i] = SegS(key)]
    ELSE Undefined

\* the strings of the catalogue that have the format of an e-mail address,
\* and of an ISO date-time
WellFormedEmails == {"john@example.com", "jane@example.com"}
WellFormedDatetimes == {"2023-01-01T00:00:00.000Z"}

Violated(path, broken) == IF broken THEN <<path>> ELSE <<>>

\* the violations of the n elements of an array or entries of a record,
\* those of the k-th given by PerItem(k)
ViolationsOfItems(n, PerItem(_)) ==
    LET upTo[k \in 0..n] == IF k = 0 THEN <<>> ELSE upTo[k - 1] \o PerItem(k)
    IN upTo[n]

RootViolation == <<<<>>>>

userSchemaViolations(v) ==
    IF ~IsObject(v) THEN RootViolation
    ELSE LET name == Get(v, "name")
             age == Get(v, "age")
             email == Get(v, "email")
             isActive == Get(v, "isActive")
         IN Violated(<<SegS("name")>>, ~(IsString(name) /\ Len(name.v) >= 1))
            \o Violated(<<SegS("age")>>,
                        ~(IsNumber(age) /\ age.v >= 0 /\ age.v <= 150))
            \o Violated(<<SegS("email")>>,
                        ~(IsString(email) /\ email.v \in WellFormedEmails))
            \o Violated(<<SegS("isActive")>>,
                        ~(isActive = Undefined \/ IsBoolean(isActive)))

directSchemaViolations(v) ==
    IF ~IsObject(v) THEN RootViolation
    ELSE LET id == Get(v, "id")
             title == Get(v, "title")
             tags == Get(v, "tags")
         IN Violated(<<SegS("id")>>, ~(IsNumber(id) /\ id.v > 0))
            \o Violated(<<SegS("title")>>,
                        ~(IsString(title) /\ Len(title.v) >= 1 /\ Len(title.v) <= 100))
            \o (IF tags = Undefined THEN <<>>
                ELSE IF ~IsArray(tags) THEN <<<<SegS("tags")>>>>
                ELSE ViolationsOfItems(Len(tags.v),
                        LAMBDA k : Violated(<<SegS("tags"), SegN(k - 1)>>,
                                            ~IsString(tags.v[k]))))

simpleSchemaViolations(v) ==
    IF ~IsObject(v) THEN RootViolation
    ELSE Violated(<<SegS("name")>>, ~IsString(Get(v, "name")))
         \o Violated(<<SegS("age")>>, ~IsNumber(Get(v, "age")))

complexSchemaViolations(v) ==
    IF ~IsObject(v) THEN RootViolation
    ELSE LET user == Get(v, "user")
             profile == Get(user, "profile")
             firstName == Get(profile, "firstName")
             preferences == Get(profile, "preferences")
             settings == Get(user, "settings")
             metadata == Get(v, "metadata")
             createdAt == Get(metadata, "createdAt")
             version == Get(metadata, "version")
             inProfile(key) == <<SegS("user"), SegS("profile"), SegS(key)>>
             setting(k, key) == <<SegS("user"), SegS("settings"), SegN(k - 1), SegS(key)>>
         IN Violated(inProfile("firstName"),
                     ~(IsString(firstName) /\ Len(firstName.v) >= 1))
            \o Violated(inProfile("lastName"), ~IsString(Get(profile, "lastName")))
            \o (IF preferences = Undefined THEN <<>>
                ELSE Violated(inProfile("preferences") \o <<SegS("theme")>>,
                              Get(preferences, "theme") \notin {Str("light"), Str("dark")})
                     \o Violated(inProfile("preferences") \o <<SegS("notifications")>>,
                                 ~IsBoolean(Get(preferences, "notifications"))))
            \o (IF ~IsArray(settings) THEN <<<<SegS("user"), SegS("settings")>>>>
                ELSE ViolationsOfItems(Len(settings.v),
                        LAMBDA k :
                            Violated(setting(k, "key"),
                                     ~IsString(Get(settings.v[k], "key")))
                            \o Violated(setting(k, "value"),
                                        TypeOf(Get(settings.v[k], "value")) \notin
                                           {"string", "number", "boolean"})))
            \o Violated(<<SegS("metadata"), SegS("createdAt")>>,
                        ~(IsString(createdAt) /\ createdAt.v \in WellFormedDatetimes))
            \o Violated(<<SegS("metadata"), SegS("version")>>,
                        ~(IsNumber(version) /\ version.v > 0))

appSchemaViolations(v) ==
    IF ~IsObject(v) THEN RootViolation
    ELSE LET optional(key, type) ==
                 Violated(<<SegS(key)>>,
                          ~(Get(v, key) = Undefined \/ TypeOf(Get(v, key)) = type))
         IN optional("name", "string") \o optional("version", "string")
            \o optional("debug", "boolean")

serversSchemaViolations(v) ==
    IF ~IsObject(v) THEN RootViolation
    ELSE LET servers == Get(v, "servers")
             cache == Get(v, "cache")
             server(k, key) == <<SegS("servers"), SegN(k - 1), SegS(key)>>
             entry(k, key) == <<SegS("cache"), cache.v.keys[k], SegS(key)>>
             positive(x) == IsNumber(x) /\ x.v > 0
         IN (IF ~IsArray(servers) \/ Len(servers.v) < 1 THEN <<<<SegS("servers")>>>>
             ELSE ViolationsOfItems(Len(servers.v),
                     LAMBDA k :
                         Violated(server(k, "host"),
                                  ~IsString(Get(servers.v[k], "host")))
                         \o Violated(server(k, "port"),
                                     ~IsNumber(Get(servers.v[k], "port")))
                         \o Violated(server(k, "weight"),
                                     LET weight == Get(servers.v[k], "weight")
                                     IN ~(IsNumber(weight) /\ weight.v >= 0
                                          /\ weight.v <= 1))))
            \o (IF ~IsObject(cache) THEN <<<<SegS("cache")>>>>
                ELSE ViolationsOfItems(Len(cache.v.keys),
                        LAMBDA k :
                            IF cache.v.keys[k].k # "string"
                            THEN <<<<SegS("cache"), cache.v.keys[k]>>>>
                            ELSE Violated(entry(k, "ttl"),
                                          ~positive(Get(cache.v.vals[k], "ttl")))
                                 \o Violated(entry(k, "maxSize"),
                                             ~positive(Get(cache.v.vals[k], "maxSize")))))

\* the constraints of asyncSchema that a synchronous reader can evaluate
asyncSchemaViolations(v) == IF IsString(v) THEN <<>> ELSE RootViolation

auditSchemaViolations(v) ==
    IF ~IsObject(v) THEN RootViolation
    ELSE Violated(<<SegS("id")>>, ~IsString(Get(v, "id")))
         \o Violated(<<SegS("metadata")>>, ~IsObject(Get(v, "metadata")))
         \o Violated(<<SegS("tags")>>, ~IsArray(Get(v, "tags")))
         \o <<<<SegS("createdAt")>>>>

Violations(id, v) ==
    CASE id = "userSchema" -> userSchemaViolations(v)
      [] id = "directSchema" -> directSchemaViolations(v)
      [] id = "simpleSchema" -> simpleSchemaViolations(v)
      [] id = "complexSchema" -> complexSchemaViolations(v)
      [] id = "appSchema" -> appSchemaViolations(v)
      [] id = "serversSchema" -> serversSchemaViolations(v)
      [] id = "asyncSchema" -> asyncSchemaViolations(v)
      [] id = "auditSchema" -> auditSchemaViolations(v)

\* the library reports a failure exactly for the candidates that violate a
\* constraint, one issue per violation, at the path of the violation
LibraryReportsViolations ==
    \A id \in SchemaIds : \A v \in Candidates(id) :
        LET result == safeParse(Schema(id), v)
            violated == Violations(id, v)
        IN /\ result.kind = "ok" => violated = <<>>
           /\ result.kind = "fail" =>
                 /\ Len(result.issues) = Len(violated)
                 /\ \A i \in 1..Len(violated) : result.issues[i].path = violated[i]

(***************************************************************************)
(* Violations and issues                                                   *)
(***************************************************************************)
\* the last operation was a validate call on whose candidate the library
\* has reported, and the constraints the candidate violates
ViolationsOfReported ==
    Violations(engine[ret.engine]._schema.v, ret.arg)

\* C15: for a candidate value with N violations of the Schema, validate
\* returns a Failure outcome with exactly N Issue records, at the paths of
\* the violations; the candidate of the test suite with an empty name and a
\* negative age has an Issue at "name" and an Issue at "age".
C15_OneIssuePerViolation ==
    (ValidateReported /\ Len(ViolationsOfReported) >= 1) =>
        /\ ret.kind = "return"
        /\ ret.value.success = FALSE
        /\ Len(ret.value.errors) = Len(ViolationsOfReported)
        /\ \A i \in 1..Len(ViolationsOfReported) :
              ret.value.errors[i].path = Str(DottedPath(ViolationsOfReported[i]))
        /\ ret.arg = userInvalid =>
              /\ ret.value.errors[1].path = Str("name")
              /\ ret.value.errors[2].path = Str("age")

\* C16: for a candidate value with exactly one violation, validate returns
\* a Failure outcome with exactly one Issue, at the dotted path of the
\* violating field; a theme outside the two literals gives one Issue at
\* "user.profile.preferences.theme".
C16_SingleViolationSingleIssue ==
    (ValidateReported /\ Len(ViolationsOfReported) = 1) =>
        /\ ret.kind = "return"
        /\ ret.value.success = FALSE
        /\ Len(ret.value.errors) = 1
        /\ ret.value.errors[1].path = Str(DottedPath(ViolationsOfReported[1]))
        /\ ret.arg = complexBadTheme =>
              ret.value.errors[1].path = Str("user.profile.preferences.theme")

(***************************************************************************)
(* Calls do not depend on one another                                      *)
(***************************************************************************)
\* how a call completes when it is the only call ever made on an engine
\* built from the constructor argument `schema`
AloneOnFreshEngine(schema, op, arg) ==
    IF op = "validate"
    THEN validateBody(RetainedAtConstruction(schema), arg)
    ELSE toJsonSchemaBody(RetainedAtConstruction(schema), arg)

\* C17: validate and toJsonSchema run to completion without yielding, so
\* the calls of several callers on one engine interleave as whole calls, in
\* any order.  In whatever order, each call completes as it would had it
\* been the only call ever made on that engine.
C17_InterleavedCallsAsAlone ==
    ret.op \in {"validate", "toJsonSchema"} =>
        Completion(ret) = AloneOnFreshEngine(builtFrom[ret.engine], ret.op, ret.arg)

\* a toJsonSchema call served after a validate call on the same engine threw
C17_Witness ==
    /\ ret.op = "toJsonSchema" /\ ret.arg = Bool(TRUE) /\ ret.kind = "return"
    /\ builtFrom[ret.engine] = Schema("asyncSchema")
    /\ failed[ret.engine]

\* C19: a failed call leaves the engine usable.  On an engine on which a
\* call has thrown, every validate call completes as it would on an engine
\* on which no call has been made.
C19_FailedCallLeavesEngineUsable ==
    \A e \in EngineIds :
        failed[e] =>
            /\ engine[e].state = "built"
            /\ (ret.op = "validate" /\ ret.engine = e) =>
                  Completion(ret) =
                     validateBody(RetainedAtConstruction(builtFrom[e]), ret.arg)

\* validate returns its outcome on the engine whose toJsonSchema has thrown
C19_Witness ==
    /\ ret.op = "validate" /\ ret.kind = "return"
    /\ builtFrom[ret.engine] = Schema("auditSchema")
    /\ ret.arg = Null
    /\ ret.value.success = FALSE
    /\ failed[ret.engine]

(***************************************************************************)
(* What _raw keeps                                                         *)
(***************************************************************************)
\* the segment sequences that differ from `segs` in spelling a numeric
\* index as the string key of the same digits, or not at all
Respellings(segs) ==
    {[i \in 1..Len(segs) |->
         IF i \in S THEN SegS(ToString(segs[i].n)) ELSE segs[i]] :
       S \in SUBSET {i \in 1..Len(segs) : segs[i].k = "number"}}

\* C20: in every Issue record _raw carries the library's own segment
\* sequence, kinds of segments included; path is its '.'-join, details its
\* code and message its message.  Sequences that spell an index as a string
\* key join to the same path, and _raw tells them apart.
C20_RawKeepsSegments ==
    ValidateReturnedFailure =>
        \A i \in 1..Len(ret.value.errors) :
            LET error == ret.value.errors[i]
                segs == libCall.result.issues[i].path
            IN /\ error._raw.path = segs
               /\ error.path = Str(DottedPath(error._raw.path))
               /\ error.details = error._raw.code
               /\ error.message = error._raw.message
               /\ \A other \in Respellings(segs) :
                     /\ Str(DottedPath(other)) = error.path
                     /\ other # segs => error._raw.path # other

\* the path "cache.a.b.ttl" of a record key that holds a dot: _raw keeps
\* the three segments, which join as the four segments cache, a, b, ttl do
C20_Witness ==
    /\ ValidateReturnedFailure
    /\ ret.arg = serversDottedKey
    /\ ret.value.errors[2].path = Str("cache.a.b.ttl")
    /\ ret.value.errors[2]._raw.path = <<SegS("cache"), SegS("a.b"), SegS("ttl")>>
    /\ DottedPath(<<SegS("cache"), SegS("a"), SegS("b"), SegS("ttl")>>) =
          ret.value.errors[2].path.v

(***************************************************************************)
(* Engines do not depend on one another                                    *)
(***************************************************************************)
\* C21: engines are independent.  A constructor call, a validate call or a
\* toJsonSchema call on one engine leaves every other engine as it was: its
\* closure, what it answers to every candidate value, and the document its
\* text is rendered from.
C21_EnginesAreIndependent ==
    [][ret'.op \in {"zodEngine", "validate", "toJsonSchema"} =>
          \A b \in EngineIds \ {ret'.engine} :
              /\ engine'[b] = engine[b]
              /\ builtFrom'[b] = builtFrom[b]
              /\ failed'[b] = failed[b]
              /\ engine[b].state = "built" =>
                    /\ \A v \in Candidates(builtFrom[b].v) :
                          validateBody(engine'[b]._schema, v) =
                             validateBody(engine[b]._schema, v)
                    /\ toJSONSchema(engine'[b]._schema) =
                          toJSONSchema(engine[b]._schema)
      ]_vars

\* an engine built from the user factory returns its four issues next to an
\* engine of another schema on which a call has thrown
C21_Witness ==
    /\ builtFrom["e1"] = Schema("auditSchema") /\ failed["e1"]
    /\ builtFrom["e2"] = Factory("userSchema") /\ ~failed["e2"]
    /\ ret.op = "validate" /\ ret.engine = "e2" /\ ret.arg = userInvalid
    /\ ret.kind = "return"
    /\ Len(ret.value.errors) = 4

====
